---- MODULE Spec2Model ----
(***************************************************************************)
(* Kanban server (src/server.js): boards, lists and cards kept in a MySQL  *)
(* store behind ONE shared connection.  Every route handler is a chain of  *)
(* callbacks; each db.query / db.beginTransaction / db.commit /            *)
(* db.rollback call puts one command on the connection's FIFO queue, the   *)
(* connection runs the head command, and the command's callback puts the   *)
(* handler's next command at the tail.  One model step = one command run   *)
(* together with its callback.                                             *)
(***************************************************************************)
EXTENDS Integers, Sequences, FiniteSets, TLC

\* ---------------------------------------------------------------- bounds
\* cap on the cards AUTO_INCREMENT counter (number of cards ever created)
MaxCards == 3
\* cap on the lists AUTO_INCREMENT counter (number of lists ever created)
MaxLists == 4
\* cap on the number of cards ever created in the specifications that also
\* serve list requests, store failures or overlapping requests
SmallCards == 2
\* largest target position a request body carries
MaxPos == 2
\* card requests name the lists 1..MaxTargetList, or a list that is missing
MaxTargetList == 2
\* cap on the boards AUTO_INCREMENT counter (number of boards ever created)
MaxBoards == 2
\* number of lists createDefaultData seeds
DefaultLists == 3

\* how far below 0 and beyond the last slot of a full list a move's target
\* position may lie
Beyond == 1

\* request slots: at most two requests are in flight at once
Reqs == {"r1", "r2"}
FirstReq == "r1"

CardIds == 1..MaxCards
ListIds == 1..MaxLists
BoardIds == {1}
Targets == 0..MaxPos
\* target positions in and out of the range of a list
WideTargets == (0 - Beyond)..(MaxCards - 1 + Beyond)
\* target indexes of a list reorder, in and out of the range of a board
ReorderTargets == (0 - MaxLists - Beyond)..(MaxLists + Beyond)
\* an id no list ever has
MissingList == MaxLists + 1
TargetLists == (1..MaxTargetList) \cup {MissingList}

VARIABLES
    boards,     \* ids of the rows of table boards (connection's view)
    lists,      \* rows of table lists:  [id, board_id, position, title]
    cards,      \* rows of table cards:  [id, list_id, position, title,
                \* description, priority, due_date]
    committed,  \* [boards, lists, cards]: what a ROLLBACK restores
    inTxn,      \* the connection has an open transaction
    nextCardId, \* AUTO_INCREMENT of cards
    nextListId, \* AUTO_INCREMENT of lists
    nextBoardId, \* AUTO_INCREMENT of boards
    queue,      \* the connection's FIFO queue of commands
    req,        \* per slot: the request, its callback locals, its response
    base,       \* [lists, cards] when the first request of the busy period came
    prev        \* the move answered just before a move of the same card, and
                \* its base

vars == <<boards, lists, cards, committed, inTxn, nextCardId, nextListId,
          nextBoardId, queue, req, base, prev>>

\* ------------------------------------------------------------- SQL helpers
NoRow == [id |-> 0, list_id |-> 0, position |-> 0]

SetMax(S) == CHOOSE x \in S : \A y \in S : y <= x

CardsOf(cs, lid) == {c \in cs : c.list_id = lid}
ListsOf(ls, bid) == {l \in ls : l.board_id = bid}
PositionsOf(rows) == {x.position : x \in rows}

\* mutant of NextPos: (maxPos || -1) + 1, where a maximum of 0 is falsy
NextPosFalsy(rows) ==
    IF rows = {} \/ SetMax(PositionsOf(rows)) = 0
       THEN 0 ELSE SetMax(PositionsOf(rows)) + 1

\* mutant of NextPos: SELECT COUNT(*) as nextPos, the number of rows
NextPosCount(rows) == Cardinality(rows)

\* SELECT COALESCE(MAX(position), -1) + 1 as nextPos
NextPos(rows) == IF rows = {} THEN 0 ELSE SetMax(PositionsOf(rows)) + 1

\* mutant of DecBetween: position < ? in place of position <= ?
DecBetweenExclusive(cs, lid, p, t) ==
    {IF c.list_id = lid /\ c.position > p /\ c.position < t
        THEN [c EXCEPT !.position = @ - 1] ELSE c : c \in cs}

\* UPDATE cards SET position = position - 1
\*   WHERE list_id = ? AND position > ? AND position <= ?
DecBetween(cs, lid, p, t) ==
    {IF c.list_id = lid /\ c.position > p /\ c.position <= t
        THEN [c EXCEPT !.position = @ - 1] ELSE c : c \in cs}

\* mutant of IncBetween: position > ? in place of position >= ?
IncBetweenExclusive(cs, lid, t, p) ==
    {IF c.list_id = lid /\ c.position > t /\ c.position < p
        THEN [c EXCEPT !.position = @ + 1] ELSE c : c \in cs}

\* UPDATE cards SET position = position + 1
\*   WHERE list_id = ? AND position >= ? AND position < ?
IncBetween(cs, lid, t, p) ==
    {IF c.list_id = lid /\ c.position >= t /\ c.position < p
        THEN [c EXCEPT !.position = @ + 1] ELSE c : c \in cs}

\* mutant of DecAbove: WHERE position > ? alone, the cards of every list
DecAboveAnyList(cs, lid, p) ==
    {IF c.position > p THEN [c EXCEPT !.position = @ - 1] ELSE c : c \in cs}

\* UPDATE cards SET position = position - 1 WHERE list_id = ? AND position > ?
DecAbove(cs, lid, p) ==
    {IF c.list_id = lid /\ c.position > p
        THEN [c EXCEPT !.position = @ - 1] ELSE c : c \in cs}

\* mutant of IncFrom: position = ? in place of position >= ?, only the card
\* in the target slot gives way
IncFromSlotOnly(cs, lid, t) ==
    {IF c.list_id = lid /\ c.position = t
        THEN [c EXCEPT !.position = @ + 1] ELSE c : c \in cs}

\* mutant of IncFrom: position > ? in place of position >= ?
IncFromExclusive(cs, lid, t) ==
    {IF c.list_id = lid /\ c.position > t
        THEN [c EXCEPT !.position = @ + 1] ELSE c : c \in cs}

\* UPDATE cards SET position = position + 1 WHERE list_id = ? AND position >= ?
IncFrom(cs, lid, t) ==
    {IF c.list_id = lid /\ c.position >= t
        THEN [c EXCEPT !.position = @ + 1] ELSE c : c \in cs}

\* mutant of SetCard: a negative position is stored as 0
SetCardClamped(cs, id, lid, t) ==
    {IF c.id = id
        THEN [c EXCEPT !.list_id = lid, !.position = IF t < 0 THEN 0 ELSE t]
        ELSE c : c \in cs}

\* mutant of SetCard: SET position = ? alone, list_id is left
SetCardKeepList(cs, id, lid, t) ==
    {IF c.id = id THEN [c EXCEPT !.position = t] ELSE c : c \in cs}

\* UPDATE cards SET list_id = ?, position = ? WHERE id = ?
SetCard(cs, id, lid, t) ==
    {IF c.id = id THEN [c EXCEPT !.list_id = lid, !.position = t] ELSE c
        : c \in cs}

\* UPDATE lists SET title = ? WHERE id = ?
SetListTitle(ls, id, title) ==
    {IF l.id = id THEN [l EXCEPT !.title = title] ELSE l : l \in ls}

\* UPDATE lists SET position = ? WHERE id = ?
SetListPosition(ls, id, t) ==
    {IF l.id = id THEN [l EXCEPT !.position = t] ELSE l : l \in ls}

\* mutant of DeleteCardRow: the cards behind the deleted one move up by one
DeleteCardAndCloseGap(cs, id) ==
    {IF \E d \in cs : d.id = id /\ d.list_id = c.list_id
                            /\ d.position < c.position
        THEN [c EXCEPT !.position = @ - 1] ELSE c
        : c \in {x \in cs : x.id # id}}

\* DELETE FROM cards WHERE id = ?
DeleteCardRow(cs, id) == {c \in cs : c.id # id}

\* DELETE FROM lists WHERE id = ?   (cards.list_id ... ON DELETE CASCADE)
DeleteListRow(ls, id) == {l \in ls : l.id # id}

\* mutant of CascadeCards: the cards of a deleted list stay
CascadeCardsNone(cs, id) == cs

CascadeCards(cs, id) == {c \in cs : c.list_id # id}

\* mutant of OrderByPosition: the rows in any order
InAnyOrder(rows) ==
    LET n == Cardinality(rows)
    IN  {s \in [1..n -> rows] : \A i, j \in 1..n : i # j => s[i] # s[j]}

\* SELECT ... ORDER BY position: every row order the sort key allows
OrderByPosition(rows) ==
    LET n == Cardinality(rows)
    IN  {s \in [1..n -> rows] :
            /\ \A i, j \in 1..n : i # j => s[i] # s[j]
            /\ \A i, j \in 1..n : i < j => s[i].position <= s[j].position}

\* mutant of Splice: a negative start is taken as 0
SpliceFromStart(s, position, item) ==
    LET len == Len(s)
        start == IF position < 0 THEN 0
                 ELSE (IF position > len THEN len ELSE position)
    IN  SubSeq(s, 1, start) \o <<item>> \o SubSeq(s, start + 1, len)

\* mutant of Splice: the item is pushed at the end, wherever it was to go
SpliceAtEnd(s, position, item) == Append(s, item)

\* Array.prototype.splice(position, 0, item): a negative start counts from
\* the end, and the start is clamped to [0, length]
Splice(s, position, item) ==
    LET len == Len(s)
        start == IF position < 0
                    THEN (IF len + position < 0 THEN 0 ELSE len + position)
                    ELSE (IF position > len THEN len ELSE position)
    IN  SubSeq(s, 1, start) \o <<item>> \o SubSeq(s, start + 1, len)

\* ------------------------------------------------------ JavaScript values
\* a field of a request body or of a result row: undefined (the field is
\* absent), null, a string or a Date object.  A string is the sequence of
\* its tokens: a calendar day, a time of day, a blank, other text, and the
\* letter "T", which is a token of its own
JsVal(kind, toks) == [kind |-> kind, toks |-> toks]
Undefined == JsVal("undefined", <<>>)
Null == JsVal("null", <<>>)
Str(toks) == JsVal("string", toks)
\* what the driver returns for a DATE column that is not NULL
DateObject(day) == JsVal("Date", <<day>>)

\* the calendar days: the tokens that match /^\d{4}-\d{2}-\d{2}$/
Days == {"2025-01-15", "2025-02-01"}
Blank == " "

\* undefined, null and "" are falsy; a Date object and any other string are
\* truthy
Falsy(v) == v.kind \in {"undefined", "null"} \/ v = Str(<<>>)

\* a || b
OrElse(a, b) == IF Falsy(a) THEN b ELSE a

\* String.prototype.trim
RECURSIVE TrimLeft(_)
TrimLeft(toks) ==
    IF toks # <<>> /\ Head(toks) = Blank THEN TrimLeft(Tail(toks)) ELSE toks

RECURSIVE TrimRight(_)
TrimRight(toks) ==
    IF toks # <<>> /\ toks[Len(toks)] = Blank
       THEN TrimRight(SubSeq(toks, 1, Len(toks) - 1)) ELSE toks

Trim(toks) == TrimRight(TrimLeft(toks))

\* s.split("T")[0]: what stands before the first "T"
BeforeT(toks) ==
    LET ts == {i \in 1..Len(toks) : toks[i] = "T"}
    IN  IF ts = {} THEN toks
        ELSE SubSeq(toks, 1, (CHOOSE i \in ts : \A j \in ts : i <= j) - 1)

\* formattedDate.match(/^\d{4}-\d{2}-\d{2}$/)
MatchesDate(toks) == Len(toks) = 1 /\ toks[1] \in Days

\* the date handling of POST /api/cards and PUT /api/cards/:id:
\*   let formattedDate = null;
\*   if (due_date && due_date.trim() !== "") {
\*     if (typeof due_date === "string") {
\*       formattedDate = due_date.split("T")[0];
\*       if (!formattedDate.match(...)) { res.status(400)...; return; }
\*     } else { formattedDate = due_date; } }
\* a truthy value that is not a string has no trim method: the call throws
\* a TypeError
FormatDate(v) ==
    IF Falsy(v) THEN [end |-> "ok", date |-> Null]
    ELSE IF v.kind # "string" THEN [end |-> "TypeError", date |-> Null]
    ELSE IF Trim(v.toks) = <<>> THEN [end |-> "ok", date |-> Null]
    ELSE IF MatchesDate(BeforeT(v.toks))
       THEN [end |-> "ok", date |-> Str(BeforeT(v.toks))]
    ELSE [end |-> "invalid", date |-> Null]

\* a DATE column set from the parameter formattedDate, as a later SELECT
\* returns it
StoredDate(v) == IF v.kind = "string" THEN DateObject(v.toks[1]) ELSE Null

\* req.body of a card request, apart from list_id and position
Body(title, description, priority, due_date) ==
    [title |-> title, description |-> description, priority |-> priority,
     due_date |-> due_date]

NoBody == Body(Undefined, Undefined, Undefined, Undefined)

\* { title: "t1" }
PlainBody == Body(Str(<<"t1">>), Undefined, Undefined, Undefined)

\* const updatedData = { title: updates.title !== undefined ? updates.title
\*                              : currentCard.title, ... }
Merged(updates, currentCard) ==
    [f \in {"title", "description", "priority", "due_date"} |->
        IF updates[f] # Undefined THEN updates[f] ELSE currentCard[f]]

\* mutant of SetFields: the UPDATE also sets list_id and position from the
\* request body
SetFieldsAndSlot(cs, rec, data, date) ==
    {IF c.id = rec.id
        THEN [c EXCEPT !.title = data.title,
                       !.description = OrElse(data.description, Str(<<>>)),
                       !.priority = OrElse(data.priority, Str(<<"medium">>)),
                       !.due_date = StoredDate(date),
                       !.list_id = rec.list_id,
                       !.position = rec.position]
        ELSE c : c \in cs}

\* UPDATE cards SET title = ?, description = ?, priority = ?, due_date = ?
\*   WHERE id = ?   with the parameters [updatedData.title,
\*   updatedData.description || "", updatedData.priority || "medium",
\*   formattedDate, cardId]
SetFields(cs, rec, data, date) ==
    {IF c.id = rec.id
        THEN [c EXCEPT !.title = data.title,
                       !.description = OrElse(data.description, Str(<<>>)),
                       !.priority = OrElse(data.priority, Str(<<"medium">>)),
                       !.due_date = StoredDate(date)]
        ELSE c : c \in cs}

\* ------------------------------------------------------- requests, queue
Idle == [op |-> "none", id |-> 0, list_id |-> 0, strict |-> TRUE,
         position |-> 0, cur |-> NoRow, pending |-> 0, rejected |-> FALSE,
         err |-> 0, failedAt |-> "", status |-> 0, out |-> 0,
         body |-> NoBody, date |-> Null,
         begun |-> 0, ended |-> 0, sent |-> 0, ranges |-> 0, points |-> 0]

\* a callback threw: nothing catches the exception, the server process ends
\* and no response is sent
Down == \E r \in DOMAIN req : req[r].failedAt = "TypeError"

NoPrev == [req |-> Idle, base |-> [lists |-> {}, cards |-> {}]]

Request(op, id, lid, strict, position) ==
    [Idle EXCEPT !.op = op, !.id = id, !.list_id = lid, !.strict = strict,
                 !.position = position]

Cmd(r, stmt) == [r |-> r, stmt |-> stmt, id |-> 0, val |-> 0]

\* history kept in a request record: begun counts the transactions the
\* handler opened, ended the COMMITs and ROLLBACKs of the handler that ran
\* without error, sent the responses it sent, ranges the UPDATEs of a range
\* of positions and points the UPDATEs of one card it issued
\*
\* no command is queued: every request received so far has been answered
Quiescent == queue = <<>>

\* the connection is about to run command stmt of request r
AtHead(r, stmt) ==
    /\ queue # <<>>
    /\ Head(queue).r = r
    /\ Head(queue).stmt = stmt

Snapshot(b, l, c) == [boards |-> b, lists |-> l, cards |-> c]

\* a data statement changes the connection's view; outside a transaction
\* the connection is in autocommit mode and the change is durable at once
Store(b, l, c) ==
    /\ boards' = b
    /\ lists' = l
    /\ cards' = c
    /\ committed' = IF inTxn THEN committed ELSE Snapshot(b, l, c)
    /\ UNCHANGED inTxn

ReadOnly == UNCHANGED <<boards, lists, cards, committed, inTxn>>

\* the callback issues the handler's next command
Then(r, rec, stmt) ==
    /\ req' = [req EXCEPT ![r] = rec]
    /\ queue' = Append(Tail(queue), Cmd(r, stmt))

\* the callback sends the response: res.status(code).json(...)
Respond(r, rec, code) ==
    /\ req' = [req EXCEPT ![r] = [rec EXCEPT !.status = code,
                                             !.sent = @ + 1]]
    /\ queue' = Tail(queue)

\* mutant of ThenRollback: the handler goes on to db.commit
ThenCommit(r, rec, code) ==
    Then(r, [rec EXCEPT !.err = code], "commit")

\* return db.rollback(() => { res.status(code).json({ error }) })
ThenRollback(r, rec, code) ==
    Then(r, [rec EXCEPT !.err = code], "rollback")

\* history: the first statement of the request that failed
Failed(rec, stmt) ==
    IF rec.failedAt = "" THEN [rec EXCEPT !.failedAt = stmt] ELSE rec

\* history: a move request that asks to put the card of the last, successful,
\* within-list move back where it was keeps that move and the tables it
\* started from; a board load that follows a successful card creation or
\* update whose body had a string due_date keeps that request; a card
\* creation that follows the deletion of a card of the same list keeps the
\* deletion and the tables it started from
Remember(rec) ==
    LET last == req[FirstReq]
    IN  IF \/ /\ rec.op = "moveCard" /\ last.op = "moveCard"
              /\ last.status = 200 /\ last.id = rec.id
              /\ last.cur.list_id = last.list_id
              /\ rec.list_id = last.list_id
              /\ rec.position = last.cur.position
           \/ /\ rec.op = "getBoard" /\ last.op \in {"postCard", "putCard"}
              /\ last.status = 200
              /\ last.body.due_date.kind = "string"
           \/ /\ rec.op = "postCard" /\ last.op = "deleteCard"
              /\ last.status = 200
              /\ \E c \in base.cards :
                    c.id = last.id /\ c.list_id = rec.list_id
           THEN [req |-> last, base |-> base]
           ELSE NoPrev

\* a route handler is entered: it issues its first command
Accept(r, rec, stmt) ==
    /\ ~Down
    /\ queue' = Append(queue, Cmd(r, stmt))
    /\ IF Quiescent
          THEN /\ r = FirstReq
               /\ req' = [s \in Reqs |-> IF s = r THEN rec ELSE Idle]
               /\ base' = [lists |-> lists, cards |-> cards]
               /\ prev' = Remember(rec)
          ELSE /\ req[r] = Idle
               /\ req' = [req EXCEPT ![r] = rec]
               /\ UNCHANGED <<base, prev>>
    /\ UNCHANGED <<boards, lists, cards, committed, inTxn, nextCardId,
                   nextListId, nextBoardId>>

\* ------------------------------------------------ POST /api/cards
PostCardBody(r, lid, body) ==
    Accept(r, [Request("postCard", 0, lid, TRUE, 0) EXCEPT !.body = body],
           "cardNextPos")

\* POST /api/cards { list_id, title: "t1" }
PostCard(r, lid) == PostCardBody(r, lid, PlainBody)

\* SELECT COALESCE(MAX(position), -1) + 1 ... FROM cards WHERE list_id = ?
\* and, in its callback, the date handling
PostCardNextPos(r) ==
    /\ AtHead(r, "cardNextPos")
    /\ LET rec == [req[r] EXCEPT !.position =
                        NextPos(CardsOf(cards, req[r].list_id))]
           fmt == FormatDate(rec.body.due_date)
       IN  IF fmt.end = "ok"
              THEN Then(r, [rec EXCEPT !.date = fmt.date], "cardInsert")
           ELSE IF fmt.end = "invalid"
              THEN Respond(r, rec, 400)
           ELSE /\ req' = [req EXCEPT ![r] = [rec EXCEPT !.failedAt = fmt.end]]
                /\ queue' = Tail(queue)
    /\ ReadOnly
    /\ UNCHANGED <<nextCardId, nextListId, nextBoardId, base, prev>>

\* mutant of NewCard: the row is stored in front of the list, position 0
NewCardAtFront(id, rec) ==
    [id |-> id, list_id |-> rec.list_id, position |-> 0,
     title |-> rec.body.title,
     description |-> OrElse(rec.body.description, Str(<<>>)),
     priority |-> OrElse(rec.body.priority, Str(<<"medium">>)),
     due_date |-> StoredDate(rec.date)]

\* the row INSERT INTO cards (list_id, title, description, position,
\* priority, due_date) VALUES (?, ?, ?, ?, ?, ?) adds, with the parameters
\* [list_id, title, description || "", position, priority || "medium",
\* formattedDate]
NewCard(id, rec) ==
    [id |-> id, list_id |-> rec.list_id, position |-> rec.position,
     title |-> rec.body.title,
     description |-> OrElse(rec.body.description, Str(<<>>)),
     priority |-> OrElse(rec.body.priority, Str(<<"medium">>)),
     due_date |-> StoredDate(rec.date)]

\* INSERT INTO cards (list_id, ..., position, ...): the FOREIGN KEY on
\* list_id makes the statement fail when the list does not exist, and
\* title ... NOT NULL when the body has no title
PostCardInsert(r) ==
    /\ AtHead(r, "cardInsert")
    /\ IF /\ \E l \in lists : l.id = req[r].list_id
          /\ req[r].body.title.kind = "string"
          THEN /\ Store(boards, lists,
                        cards \cup {NewCard(nextCardId, req[r])})
               /\ nextCardId' = nextCardId + 1
               /\ Respond(r, [req[r] EXCEPT !.out = req[r].position,
                                            !.id = nextCardId], 200)
          ELSE /\ ReadOnly
               /\ UNCHANGED nextCardId
               /\ Respond(r, Failed(req[r], "cardInsert"), 500)
    /\ UNCHANGED <<nextListId, nextBoardId, base, prev>>

\* ------------------------------------------------ DELETE /api/cards/:id
DeleteCard(r, id) ==
    Accept(r, Request("deleteCard", id, 0, TRUE, 0), "cardDelete")

DeleteCardRun(r) ==
    /\ AtHead(r, "cardDelete")
    /\ Store(boards, lists, DeleteCardRow(cards, req[r].id))
    /\ Respond(r, req[r], 200)
    /\ UNCHANGED <<nextCardId, nextListId, nextBoardId, base, prev>>

\* ------------------------------------------------ PUT /api/cards/:id
\* the body may carry list_id and position as well; the handler reads
\* title, description, priority and due_date only
PutCardBody(r, id, lid, position, body) ==
    Accept(r, [Request("putCard", id, lid, TRUE, position)
                    EXCEPT !.body = body], "cardFetch")

\* PUT /api/cards/:id { title: "t1" }
PutCard(r, id) == PutCardBody(r, id, 0, 0, PlainBody)

\* SELECT * FROM cards WHERE id = ?  and, in its callback, the merge of the
\* body over the current row and the date handling
PutCardFetch(r) ==
    /\ AtHead(r, "cardFetch")
    /\ IF \E c \in cards : c.id = req[r].id
          THEN LET row == CHOOSE c \in cards : c.id = req[r].id
                   rec == [req[r] EXCEPT !.cur = row]
                   fmt == FormatDate(Merged(rec.body, row).due_date)
               IN  IF fmt.end = "ok"
                      THEN Then(r, [rec EXCEPT !.date = fmt.date],
                                "cardUpdate")
                   ELSE IF fmt.end = "invalid"
                      THEN Respond(r, rec, 400)
                   ELSE /\ req' = [req EXCEPT ![r] =
                                       [rec EXCEPT !.failedAt = fmt.end]]
                        /\ queue' = Tail(queue)
          ELSE Respond(r, req[r], 404)
    /\ ReadOnly
    /\ UNCHANGED <<nextCardId, nextListId, nextBoardId, base, prev>>

\* UPDATE cards SET title = ?, description = ?, priority = ?, due_date = ?
\*   WHERE id = ?    (neither list_id nor position is among the columns);
\* title ... NOT NULL makes it fail for a null title
PutCardUpdate(r) ==
    /\ AtHead(r, "cardUpdate")
    /\ LET data == Merged(req[r].body, req[r].cur)
       IN  IF data.title.kind = "string"
              THEN /\ Store(boards, lists,
                            SetFields(cards, req[r], data, req[r].date))
                   /\ Respond(r, [req[r] EXCEPT !.out = req[r].date], 200)
              ELSE /\ ReadOnly
                   /\ Respond(r, Failed(req[r], "cardUpdate"), 500)
    /\ UNCHANGED <<nextCardId, nextListId, nextBoardId, base, prev>>

\* ------------------------------------------------ transactions
\* db.beginTransaction: START TRANSACTION commits whatever transaction the
\* connection has open and opens a new one
StartTransaction ==
    /\ committed' = Snapshot(boards, lists, cards)
    /\ inTxn' = TRUE
    /\ UNCHANGED <<boards, lists, cards>>

\* db.commit((err) => { ... res.json({ success: true }) })
Commit(r) ==
    /\ AtHead(r, "commit")
    /\ committed' = Snapshot(boards, lists, cards)
    /\ inTxn' = FALSE
    /\ UNCHANGED <<boards, lists, cards>>
    /\ Respond(r, [req[r] EXCEPT !.ended = @ + 1], 200)
    /\ UNCHANGED <<nextCardId, nextListId, nextBoardId, base, prev>>

\* mutant of Rollback: the error is answered without db.rollback
RollbackSkipped(r) ==
    /\ AtHead(r, "rollback")
    /\ UNCHANGED <<boards, lists, cards, committed, inTxn>>
    /\ Respond(r, req[r], req[r].err)
    /\ UNCHANGED <<nextCardId, nextListId, nextBoardId, base, prev>>

\* db.rollback(() => { res.status(err).json(...) }): ROLLBACK undoes every
\* statement run on the connection since its transaction was opened
Rollback(r) ==
    /\ AtHead(r, "rollback")
    /\ boards' = committed.boards
    /\ lists' = committed.lists
    /\ cards' = committed.cards
    /\ inTxn' = FALSE
    /\ UNCHANGED committed
    /\ Respond(r, [req[r] EXCEPT !.ended = @ + 1], req[r].err)
    /\ UNCHANGED <<nextCardId, nextListId, nextBoardId, base, prev>>

\* ------------------------------------------------ PUT /api/cards/:id/move
MoveCard(r, id, lid, strict, position) ==
    Accept(r, Request("moveCard", id, lid, strict, position), "moveBegin")

MoveBegin(r) ==
    /\ AtHead(r, "moveBegin")
    /\ StartTransaction
    /\ Then(r, [req[r] EXCEPT !.begun = @ + 1], "moveFetch")
    /\ UNCHANGED <<nextCardId, nextListId, nextBoardId, base, prev>>

\* if (currentCard.list_id === list_id): strict equality, so a list_id sent
\* as a JSON string never equals the stored number
SameList(rec, row) == rec.strict /\ row.list_id = rec.list_id

\* the command the callback of the card lookup issues
MoveBranch(rec, row) ==
    IF SameList(rec, row)
       THEN IF rec.position > row.position THEN "moveDown"
            ELSE IF rec.position < row.position THEN "moveUp"
            ELSE "commit"
       ELSE "moveDecOld"

\* SELECT * FROM cards WHERE id = ?
MoveFetch(r) ==
    /\ AtHead(r, "moveFetch")
    /\ IF \E c \in cards : c.id = req[r].id
          THEN LET row == CHOOSE c \in cards : c.id = req[r].id
               IN  Then(r, [req[r] EXCEPT !.cur = row], MoveBranch(req[r], row))
          ELSE ThenRollback(r, req[r], 404)
    /\ ReadOnly
    /\ UNCHANGED <<nextCardId, nextListId, nextBoardId, base, prev>>

MoveDown(r) ==
    /\ AtHead(r, "moveDown")
    /\ Store(boards, lists,
             DecBetween(cards, req[r].list_id, req[r].cur.position,
                        req[r].position))
    /\ Then(r, [req[r] EXCEPT !.ranges = @ + 1], "moveUpdate")
    /\ UNCHANGED <<nextCardId, nextListId, nextBoardId, base, prev>>

MoveUp(r) ==
    /\ AtHead(r, "moveUp")
    /\ Store(boards, lists,
             IncBetween(cards, req[r].list_id, req[r].position,
                        req[r].cur.position))
    /\ Then(r, [req[r] EXCEPT !.ranges = @ + 1], "moveUpdate")
    /\ UNCHANGED <<nextCardId, nextListId, nextBoardId, base, prev>>

\* mutant of MoveDecOld: the UPDATE that closes the gap in the old list
\* changes no row
MoveDecOldSkipped(r) ==
    /\ AtHead(r, "moveDecOld")
    /\ ReadOnly
    /\ Then(r, [req[r] EXCEPT !.ranges = @ + 1], "moveIncNew")
    /\ UNCHANGED <<nextCardId, nextListId, nextBoardId, base, prev>>

\* UPDATE cards SET position = position - 1 WHERE list_id = ? AND position > ?
\* with the parameters [currentCard.list_id, currentCard.position]
MoveDecOld(r) ==
    /\ AtHead(r, "moveDecOld")
    /\ Store(boards, lists,
             DecAbove(cards, req[r].cur.list_id, req[r].cur.position))
    /\ Then(r, [req[r] EXCEPT !.ranges = @ + 1], "moveIncNew")
    /\ UNCHANGED <<nextCardId, nextListId, nextBoardId, base, prev>>

MoveIncNew(r) ==
    /\ AtHead(r, "moveIncNew")
    /\ Store(boards, lists, IncFrom(cards, req[r].list_id, req[r].position))
    /\ Then(r, [req[r] EXCEPT !.ranges = @ + 1], "moveUpdate")
    /\ UNCHANGED <<nextCardId, nextListId, nextBoardId, base, prev>>

\* updateCardPosition(): the FOREIGN KEY on list_id makes the UPDATE fail
\* when the card exists and the target list does not
UpdateCardPosition(r) ==
    /\ AtHead(r, "moveUpdate")
    /\ IF (\E c \in cards : c.id = req[r].id)
            /\ ~(\E l \in lists : l.id = req[r].list_id)
          THEN /\ ReadOnly
               /\ ThenRollback(r, Failed([req[r] EXCEPT !.points = @ + 1],
                                         "moveUpdate"), 500)
          ELSE /\ Store(boards, lists,
                        SetCard(cards, req[r].id, req[r].list_id,
                                req[r].position))
               /\ Then(r, [req[r] EXCEPT !.points = @ + 1], "commit")
    /\ UNCHANGED <<nextCardId, nextListId, nextBoardId, base, prev>>


\* ------------------------------------------------ PUT /api/cards/:id/move,
\* run alone: the cards table the handler leaves (a missing card or a
\* missing target list ends in ROLLBACK)
MoveCardAlone(cs, ls, rec) ==
    IF ~(\E c \in cs : c.id = rec.id) THEN cs
    ELSE LET row == CHOOSE c \in cs : c.id = rec.id
             branch == MoveBranch(rec, row)
             shifted ==
                IF branch = "moveDown"
                   THEN DecBetween(cs, rec.list_id, row.position, rec.position)
                ELSE IF branch = "moveUp"
                   THEN IncBetween(cs, rec.list_id, rec.position, row.position)
                ELSE IF branch = "moveDecOld"
                   THEN IncFrom(DecAbove(cs, row.list_id, row.position),
                                rec.list_id, rec.position)
                ELSE cs
         IN  IF branch = "commit" THEN cs
             ELSE IF ~(\E l \in ls : l.id = rec.list_id) THEN cs
             ELSE SetCard(shifted, rec.id, rec.list_id, rec.position)

\* ------------------------------------------------ POST /api/lists
PostListBody(r, bid, body) ==
    Accept(r, [Request("postList", 0, bid, TRUE, 0) EXCEPT !.body = body],
           "listNextPos")

\* POST /api/lists { board_id, title: "t1" }
PostList(r, bid) == PostListBody(r, bid, PlainBody)

\* SELECT COALESCE(MAX(position), -1) + 1 ... FROM lists WHERE board_id = ?
\* (the request record keeps board_id in its list_id field)
PostListNextPos(r) ==
    /\ AtHead(r, "listNextPos")
    /\ Then(r, [req[r] EXCEPT !.position = NextPos(ListsOf(lists, req[r].list_id))],
            "listInsert")
    /\ ReadOnly
    /\ UNCHANGED <<nextCardId, nextListId, nextBoardId, base, prev>>

\* INSERT INTO lists (board_id, title, position): the FOREIGN KEY on
\* board_id makes the statement fail when the board does not exist, and
\* title ... NOT NULL when the body has no title
PostListInsert(r) ==
    /\ AtHead(r, "listInsert")
    /\ IF req[r].list_id \in boards /\ req[r].body.title.kind = "string"
          THEN /\ Store(boards,
                        lists \cup {[id |-> nextListId,
                                     board_id |-> req[r].list_id,
                                     position |-> req[r].position,
                                     title |-> req[r].body.title]},
                        cards)
               /\ nextListId' = nextListId + 1
               /\ Respond(r, [req[r] EXCEPT !.out = req[r].position,
                                            !.id = nextListId], 200)
          ELSE /\ ReadOnly
               /\ UNCHANGED nextListId
               /\ Respond(r, Failed(req[r], "listInsert"), 500)
    /\ UNCHANGED <<nextCardId, nextBoardId, base, prev>>

\* ------------------------------------------------ PUT /api/lists/:id
PutListBody(r, id, body) ==
    Accept(r, [Request("putList", id, 0, TRUE, 0) EXCEPT !.body = body],
           "listTitle")

\* the title of list id, "t1" if there is no such list
TitleOf(ls, id) ==
    IF \E l \in ls : l.id = id
       THEN (CHOOSE l \in ls : l.id = id).title ELSE Str(<<"t1">>)

\* PUT /api/lists/:id { title } where the title is the one the list has
PutList(r, id) ==
    PutListBody(r, id, Body(TitleOf(lists, id), Undefined, Undefined, Undefined))

\* UPDATE lists SET title = ? WHERE id = ?: title ... NOT NULL makes it fail
\* when the body has no title and the row exists
PutListRun(r) ==
    /\ AtHead(r, "listTitle")
    /\ IF req[r].body.title.kind # "string"
            /\ \E l \in lists : l.id = req[r].id
          THEN /\ ReadOnly
               /\ Respond(r, Failed(req[r], "listTitle"), 500)
          ELSE /\ Store(boards,
                        SetListTitle(lists, req[r].id, req[r].body.title),
                        cards)
               /\ Respond(r, req[r], 200)
    /\ UNCHANGED <<nextCardId, nextListId, nextBoardId, base, prev>>

\* ------------------------------------------------ DELETE /api/lists/:id
DeleteList(r, id) ==
    Accept(r, Request("deleteList", id, 0, TRUE, 0), "listDelete")

DeleteListRun(r) ==
    /\ AtHead(r, "listDelete")
    /\ Store(boards, DeleteListRow(lists, req[r].id),
             CascadeCards(cards, req[r].id))
    /\ Respond(r, req[r], 200)
    /\ UNCHANGED <<nextCardId, nextListId, nextBoardId, base, prev>>

\* ------------------------------------------------ PUT /api/lists/:id/reorder
ReorderList(r, id, position) ==
    Accept(r, Request("reorderList", id, 0, TRUE, position), "reorderBegin")

ReorderBegin(r) ==
    /\ AtHead(r, "reorderBegin")
    /\ StartTransaction
    /\ Then(r, [req[r] EXCEPT !.begun = @ + 1], "reorderFetch")
    /\ UNCHANGED <<nextCardId, nextListId, nextBoardId, base, prev>>

\* SELECT * FROM lists WHERE id = ?   (cur keeps board_id in its list_id)
ReorderFetch(r) ==
    /\ AtHead(r, "reorderFetch")
    /\ IF \E l \in lists : l.id = req[r].id
          THEN LET row == CHOOSE l \in lists : l.id = req[r].id
               IN  Then(r, [req[r] EXCEPT !.cur = [id |-> row.id,
                                                  list_id |-> row.board_id,
                                                  position |-> row.position]],
                        "reorderFetchAll")
          ELSE ThenRollback(r, req[r], 404)
    /\ ReadOnly
    /\ UNCHANGED <<nextCardId, nextListId, nextBoardId, base, prev>>

\* allLists.filter((list) => list.id !== parseInt(listId)), then
\* otherLists.splice(position, 0, currentList): the ids in array order
Reordered(allLists, id, position) ==
    LET ids == [i \in 1..Len(allLists) |-> allLists[i].id]
    IN  Splice(SelectSeq(ids, LAMBDA x : x # id), position, id)

\* SELECT * FROM lists WHERE board_id = ? ORDER BY position, then
\* otherLists.map((list, index) => db.query("UPDATE lists SET position ...")):
\* every UPDATE is queued at once, Promise.all waits for them
ReorderFetchAll(r) ==
    /\ AtHead(r, "reorderFetchAll")
    /\ \E allLists \in OrderByPosition(ListsOf(lists, req[r].cur.list_id)) :
          LET ids == Reordered(allLists, req[r].id, req[r].position)
          IN  /\ req' = [req EXCEPT ![r].pending = Len(ids)]
              /\ queue' = Tail(queue) \o
                    [i \in 1..Len(ids) |->
                        [r |-> r, stmt |-> "reorderUpdate", id |-> ids[i],
                         val |-> i - 1]]
    /\ ReadOnly
    /\ UNCHANGED <<nextCardId, nextListId, nextBoardId, base, prev>>

\* UPDATE lists SET position = ? WHERE id = ?; the last one to resolve lets
\* Promise.all(...).then call db.commit
ReorderUpdate(r) ==
    /\ AtHead(r, "reorderUpdate")
    /\ Store(boards, SetListPosition(lists, Head(queue).id, Head(queue).val),
             cards)
    /\ IF req[r].pending = 1 /\ ~req[r].rejected
          THEN Then(r, [req[r] EXCEPT !.pending = 0], "commit")
          ELSE /\ req' = [req EXCEPT ![r].pending = @ - 1]
               /\ queue' = Tail(queue)
    /\ UNCHANGED <<nextCardId, nextListId, nextBoardId, base, prev>>

\* ------------------------------------------------ POST /api/boards
PostBoardBody(r, body) ==
    Accept(r, [Request("postBoard", 0, 0, TRUE, 0) EXCEPT !.body = body],
           "boardInsert")

\* POST /api/boards { title: "t1" }
PostBoard(r) == PostBoardBody(r, PlainBody)

\* INSERT INTO boards (title, description) VALUES (?, ?) with the parameters
\* [title, description || ""]: title ... NOT NULL makes the statement fail
\* when the body has no title
PostBoardInsert(r) ==
    /\ AtHead(r, "boardInsert")
    /\ IF req[r].body.title.kind = "string"
          THEN /\ Store(boards \cup {nextBoardId}, lists, cards)
               /\ nextBoardId' = nextBoardId + 1
               /\ Respond(r, [req[r] EXCEPT !.id = nextBoardId], 200)
          ELSE /\ ReadOnly
               /\ UNCHANGED nextBoardId
               /\ Respond(r, Failed(req[r], "boardInsert"), 500)
    /\ UNCHANGED <<nextCardId, nextListId, base, prev>>

\* ------------------------------------------------ the schema's cascades
\* lists.board_id ... REFERENCES boards(id) ON DELETE CASCADE
CascadeLists(ls, bid) == {l \in ls : l.board_id # bid}

\* mutant of CardsUnder: the cards are not reached through their lists
CardsUnderNone(cs, ls) == {}

\* cards.list_id ... REFERENCES lists(id) ON DELETE CASCADE: the cards that
\* go with the lists ls
CardsUnder(cs, ls) == {c \in cs : \E l \in ls : l.id = c.list_id}

\* DELETE FROM boards WHERE id = ?  run on the store by another client
\* while the server is idle (no route of the server deletes a board): the
\* two ON DELETE CASCADE clauses remove the board's lists and their cards
DeleteBoardRow(id) ==
    /\ Quiescent
    /\ ~inTxn
    /\ ~Down
    /\ id \in boards
    /\ LET gone == ListsOf(lists, id)
       IN  /\ boards' = boards \ {id}
           /\ lists' = CascadeLists(lists, id)
           /\ cards' = cards \ CardsUnder(cards, gone)
           /\ committed' = Snapshot(boards', lists', cards')
    /\ req' = [s \in Reqs |->
                IF s = FirstReq
                   THEN [Request("deleteBoardRow", id, 0, TRUE, 0)
                            EXCEPT !.status = 200]
                   ELSE Idle]
    /\ base' = [lists |-> lists, cards |-> cards]
    /\ prev' = NoPrev
    /\ UNCHANGED <<inTxn, nextCardId, nextListId, nextBoardId, queue>>

\* ------------------------------------------------ GET /api/boards/:id
GetBoard(r, bid) ==
    Accept(r, [Request("getBoard", bid, 0, TRUE, 0) EXCEPT !.out = <<>>],
           "boardFetch")

\* SELECT * FROM boards WHERE id = ?
GetBoardFetch(r) ==
    /\ AtHead(r, "boardFetch")
    /\ IF req[r].id \in boards
          THEN Then(r, req[r], "boardLists")
          ELSE Respond(r, req[r], 404)
    /\ ReadOnly
    /\ UNCHANGED <<nextCardId, nextListId, nextBoardId, base, prev>>

\* SELECT * FROM lists WHERE board_id = ? ORDER BY position, then
\* lists.map((list) => new Promise(... db.query("SELECT * FROM cards ..."))):
\* one query per list is queued at once; Promise.all of no promise resolves
\* at once
GetBoardLists(r) ==
    /\ AtHead(r, "boardLists")
    /\ \E ls \in OrderByPosition(ListsOf(lists, req[r].id)) :
          IF Len(ls) = 0
             THEN Respond(r, req[r], 200)
             ELSE /\ req' = [req EXCEPT ![r].pending = Len(ls)]
                  /\ queue' = Tail(queue) \o
                        [i \in 1..Len(ls) |->
                            [r |-> r, stmt |-> "boardCards", id |-> ls[i].id,
                             val |-> ls[i].position]]
    /\ ReadOnly
    /\ UNCHANGED <<nextCardId, nextListId, nextBoardId, base, prev>>

\* the calendar day before a day
DayBefore(day) ==
    IF day = "2025-01-15" THEN "2025-01-14"
    ELSE IF day = "2025-02-01" THEN "2025-01-31"
    ELSE day

\* mutant of FormattedCard: the Date object, local midnight of its day, is
\* written from its UTC year, month and day on a server east of Greenwich
FormattedCardUtc(card) ==
    [card EXCEPT !.due_date =
        IF Falsy(@) THEN Null
        ELSE IF @.kind = "Date" THEN Str(<<DayBefore(@.toks[1])>>)
        ELSE IF @.kind = "string" THEN Str(BeforeT(@.toks))
        ELSE @]

\* formattedCards: a Date object is written as YYYY-MM-DD from its local
\* year, month and day (the driver builds the Date of a DATE column in local
\* time), a string is cut at its first "T"
FormattedCard(card) ==
    [card EXCEPT !.due_date =
        IF Falsy(@) THEN Null
        ELSE IF @.kind = "Date" THEN Str(@.toks)
        ELSE IF @.kind = "string" THEN Str(BeforeT(@.toks))
        ELSE @]

\* SELECT * FROM cards WHERE list_id = ? ORDER BY position: the promise of
\* the list resolves with { ...list, cards: formattedCards }; Promise.all
\* keeps the order of the lists, and the last one to resolve sends the board
GetBoardCards(r) ==
    /\ AtHead(r, "boardCards")
    /\ \E cs \in OrderByPosition(CardsOf(cards, Head(queue).id)) :
          LET item == [id |-> Head(queue).id, position |-> Head(queue).val,
                       cards |-> [i \in 1..Len(cs) |-> FormattedCard(cs[i])]]
              rec == [req[r] EXCEPT !.out = Append(@, item),
                                    !.pending = @ - 1]
          IN  IF rec.pending = 0
                 THEN Respond(r, rec, 200)
                 ELSE /\ req' = [req EXCEPT ![r] = rec]
                      /\ queue' = Tail(queue)
    /\ ReadOnly
    /\ UNCHANGED <<nextCardId, nextListId, nextBoardId, base, prev>>

\* ------------------------------------------------ store failures
\* a statement fails (lost packet, lock timeout, ...): it changes no row and
\* its callback gets err.  Inside the move handler every callback answers
\* err with db.rollback and a 500
MoveStmts == {"moveFetch", "moveDown", "moveUp", "moveDecOld", "moveIncNew",
              "moveUpdate"}

MoveStmtFails(r) ==
    /\ \E stmt \in MoveStmts : AtHead(r, stmt)
    /\ ReadOnly
    /\ LET stmt == Head(queue).stmt
           rec == IF stmt = "moveFetch" THEN req[r]
                  ELSE IF stmt = "moveUpdate"
                     THEN [req[r] EXCEPT !.points = @ + 1]
                  ELSE [req[r] EXCEPT !.ranges = @ + 1]
       IN  ThenRollback(r, Failed(rec, stmt), 500)
    /\ UNCHANGED <<nextCardId, nextListId, nextBoardId, base, prev>>

ReorderFetchFails(r) ==
    /\ \E stmt \in {"reorderFetch", "reorderFetchAll"} : AtHead(r, stmt)
    /\ ReadOnly
    /\ ThenRollback(r, Failed(req[r], Head(queue).stmt), 500)
    /\ UNCHANGED <<nextCardId, nextListId, nextBoardId, base, prev>>

\* one of the queued UPDATEs rejects its promise: Promise.all rejects on the
\* first rejection and .catch calls db.rollback, behind the UPDATEs that are
\* still queued; later rejections are ignored
ReorderUpdateFails(r) ==
    /\ AtHead(r, "reorderUpdate")
    /\ ReadOnly
    /\ IF ~req[r].rejected
          THEN ThenRollback(r, [Failed(req[r], "reorderUpdate")
                                    EXCEPT !.pending = @ - 1,
                                           !.rejected = TRUE], 500)
          ELSE /\ req' = [req EXCEPT ![r].pending = @ - 1]
               /\ queue' = Tail(queue)
    /\ UNCHANGED <<nextCardId, nextListId, nextBoardId, base, prev>>

\* mutant of CommitFails: the callback returns on err, with neither
\* db.rollback nor a response
CommitFailsUnanswered(r) ==
    /\ AtHead(r, "commit")
    /\ ReadOnly
    /\ req' = [req EXCEPT ![r] = Failed(req[r], "commit")]
    /\ queue' = Tail(queue)
    /\ UNCHANGED <<nextCardId, nextListId, nextBoardId, base, prev>>

\* db.commit((err) => { if (err) return db.rollback(...) }): the transaction
\* stays open until the ROLLBACK
CommitFails(r) ==
    /\ AtHead(r, "commit")
    /\ ReadOnly
    /\ ThenRollback(r, Failed(req[r], "commit"), 500)
    /\ UNCHANGED <<nextCardId, nextListId, nextBoardId, base, prev>>

\* db.beginTransaction((err) => { if (err) { res.status(500)...; return } })
BeginFails(r) ==
    /\ \E stmt \in {"moveBegin", "reorderBegin"} : AtHead(r, stmt)
    /\ ReadOnly
    /\ Respond(r, Failed(req[r], Head(queue).stmt), 500)
    /\ UNCHANGED <<nextCardId, nextListId, nextBoardId, base, prev>>


\* const defaultLists = [{ title: "To Do", position: 0 }, { title:
\* "In Progress", position: 1 }, { title: "Done", position: 2 }]
DefaultTitles == <<Str(<<"To Do">>), Str(<<"In Progress">>), Str(<<"Done">>)>>

\* the store as the first start of the server leaves it
Init ==
    /\ boards = {1}
    /\ lists = {[id |-> i, board_id |-> 1, position |-> i - 1,
                 title |-> DefaultTitles[i]] : i \in 1..DefaultLists}
    /\ cards = {}
    /\ committed = Snapshot(boards, lists, cards)
    /\ inTxn = FALSE
    /\ nextCardId = 1
    /\ nextListId = DefaultLists + 1
    /\ nextBoardId = 2
    /\ queue = <<>>
    /\ req = [r \in Reqs |-> Idle]
    /\ base = [lists |-> lists, cards |-> cards]
    /\ prev = NoPrev

\* ------------------------------------------------ initializeDatabase
\* mutant of ShouldSeed: createDefaultData is called whatever the count
ShouldSeedAlways(count) == TRUE

\* if (results[0].count === 0) { createDefaultData(); }
ShouldSeed(count) == count = 0

\* SELECT COUNT(*) as count FROM boards  (the request record of the start
\* keeps the count in out)
SeedCount(r) ==
    /\ AtHead(r, "seedCount")
    /\ LET rec == [req[r] EXCEPT !.out = Cardinality(boards)]
       IN  IF ShouldSeed(rec.out)
              THEN Then(r, rec, "seedBoard")
              ELSE /\ req' = [req EXCEPT ![r] = rec]
                   /\ queue' = Tail(queue)
    /\ ReadOnly
    /\ UNCHANGED <<nextCardId, nextListId, nextBoardId, base, prev>>

\* createDefaultData: INSERT INTO boards (title, description) VALUES
\* ("KanBan Board", ...), then defaultLists.forEach((list) => db.query(
\* "INSERT INTO lists ...")): the three INSERTs are queued at once
SeedBoard(r) ==
    /\ AtHead(r, "seedBoard")
    /\ Store(boards \cup {nextBoardId}, lists, cards)
    /\ nextBoardId' = nextBoardId + 1
    /\ req' = [req EXCEPT ![r].id = nextBoardId,
                          ![r].pending = Len(DefaultTitles)]
    /\ queue' = Tail(queue) \o
            [i \in 1..Len(DefaultTitles) |->
                [r |-> r, stmt |-> "seedList", id |-> i, val |-> i - 1]]
    /\ UNCHANGED <<nextCardId, nextListId, base, prev>>

\* INSERT INTO lists (board_id, title, position) VALUES (boardId,
\* list.title, list.position)
SeedList(r) ==
    /\ AtHead(r, "seedList")
    /\ Store(boards,
             lists \cup {[id |-> nextListId, board_id |-> req[r].id,
                          position |-> Head(queue).val,
                          title |-> DefaultTitles[Head(queue).id]]},
             cards)
    /\ nextListId' = nextListId + 1
    /\ req' = [req EXCEPT ![r].pending = @ - 1]
    /\ queue' = Tail(queue)
    /\ UNCHANGED <<nextCardId, nextBoardId, base, prev>>

\* the stores a start of the server can find: no board (first start), or
\* the boards 1..n, n < MaxBoards, and those of the seeded lists of board 1
\* that have not been deleted since
StartStores ==
    {[boards |-> {}, lists |-> {}]} \cup
    {[boards |-> 1..n, lists |-> ls] :
        n \in 1..(MaxBoards - 1),
        ls \in SUBSET {[id |-> i, board_id |-> 1, position |-> i - 1,
                        title |-> DefaultTitles[i]] : i \in 1..DefaultLists}}

\* the server process starts: db.connect's callback calls
\* initializeDatabase, which queues the count of the boards (the request
\* record of the start keeps the number of boards it found in position)
InitStart ==
    /\ \E st \in StartStores :
            /\ boards = st.boards
            /\ lists = st.lists
            /\ nextBoardId = Cardinality(st.boards) + 1
            /\ nextListId = IF st.boards = {} THEN 1 ELSE DefaultLists + 1
    /\ cards = {}
    /\ committed = Snapshot(boards, lists, cards)
    /\ inTxn = FALSE
    /\ nextCardId = 1
    /\ queue = <<Cmd(FirstReq, "seedCount")>>
    /\ req = [r \in Reqs |->
                IF r = FirstReq
                   THEN Request("start", 0, 0, TRUE, Cardinality(boards))
                   ELSE Idle]
    /\ base = [lists |-> lists, cards |-> cards]
    /\ prev = NoPrev

\* ------------------------------------------------ the SQLite revision
\* (src/unnamed/part_001, lines 44-430): the same routes over sqlite3.  The
\* revision never runs PRAGMA foreign_keys = ON, so SQLite does not enforce
\* the FOREIGN KEY clauses of its tables
\*
\* SELECT MAX(position) as maxPos: NULL when no row matches
SqliteMaxPos(rows) ==
    IF rows = {} THEN [null |-> TRUE, val |-> 0]
    ELSE [null |-> FALSE, val |-> SetMax(PositionsOf(rows))]

\* const position = (row.maxPos || -1) + 1: null and 0 are falsy
SqliteNextPos(maxPos) ==
    (IF maxPos.null \/ maxPos.val = 0 THEN -1 ELSE maxPos.val) + 1

\* POST /api/lists { board_id, title: "t1" }
SqlitePostList(r, bid) ==
    Accept(r, [Request("postList", 0, bid, TRUE, 0) EXCEPT !.body = PlainBody],
           "sqliteListMaxPos")

\* db.get("SELECT MAX(position) as maxPos FROM lists WHERE board_id = ?")
SqliteListMaxPos(r) ==
    /\ AtHead(r, "sqliteListMaxPos")
    /\ Then(r, [req[r] EXCEPT !.position =
                    SqliteNextPos(SqliteMaxPos(ListsOf(lists, req[r].list_id)))],
            "sqliteListInsert")
    /\ ReadOnly
    /\ UNCHANGED <<nextCardId, nextListId, nextBoardId, base, prev>>

\* db.run("INSERT INTO lists (board_id, title, position) VALUES (?, ?, ?)"),
\* answered with { id: this.lastID, board_id, title, position, cards: [] }
SqliteListInsert(r) ==
    /\ AtHead(r, "sqliteListInsert")
    /\ Store(boards,
             lists \cup {[id |-> nextListId, board_id |-> req[r].list_id,
                          position |-> req[r].position,
                          title |-> req[r].body.title]},
             cards)
    /\ nextListId' = nextListId + 1
    /\ Respond(r, [req[r] EXCEPT !.out = req[r].position, !.id = nextListId],
               200)
    /\ UNCHANGED <<nextCardId, nextBoardId, base, prev>>

\* POST /api/cards { list_id, title: "t1" }
SqlitePostCard(r, lid) ==
    Accept(r, [Request("postCard", 0, lid, TRUE, 0) EXCEPT !.body = PlainBody],
           "sqliteCardMaxPos")

\* db.get("SELECT MAX(position) as maxPos FROM cards WHERE list_id = ?")
SqliteCardMaxPos(r) ==
    /\ AtHead(r, "sqliteCardMaxPos")
    /\ Then(r, [req[r] EXCEPT !.position =
                    SqliteNextPos(SqliteMaxPos(CardsOf(cards, req[r].list_id)))],
            "sqliteCardInsert")
    /\ ReadOnly
    /\ UNCHANGED <<nextCardId, nextListId, nextBoardId, base, prev>>

\* db.run("INSERT INTO cards (list_id, title, description, position) VALUES
\* (?, ?, ?, ?)") with the parameters [list_id, title, description || "",
\* position], answered with { id: this.lastID, ..., position }
SqliteCardInsert(r) ==
    /\ AtHead(r, "sqliteCardInsert")
    /\ Store(boards, lists,
             cards \cup {[id |-> nextCardId, list_id |-> req[r].list_id,
                          position |-> req[r].position,
                          title |-> req[r].body.title,
                          description |->
                              OrElse(req[r].body.description, Str(<<>>))]})
    /\ nextCardId' = nextCardId + 1
    /\ Respond(r, [req[r] EXCEPT !.out = req[r].position, !.id = nextCardId],
               200)
    /\ UNCHANGED <<nextListId, nextBoardId, base, prev>>

\* ------------------------------------------------ specifications
CardRequest(r) ==
    \/ \E lid \in TargetLists : nextCardId <= MaxCards /\ PostCard(r, lid)
    \/ \E id \in CardIds, lid \in TargetLists, strict \in BOOLEAN, t \in Targets :
            MoveCard(r, id, lid, strict, t)
    \/ \E id \in CardIds : DeleteCard(r, id)
    \/ \E id \in CardIds : PutCard(r, id)

PostCardStep(r) ==
    \/ PostCardNextPos(r)
    \/ PostCardInsert(r)

CardStep(r) ==
    \/ DeleteCardRun(r)
    \/ PutCardFetch(r)
    \/ PutCardUpdate(r)

MoveStep(r) ==
    \/ MoveBegin(r)
    \/ MoveFetch(r)
    \/ MoveDown(r)
    \/ MoveUp(r)
    \/ MoveDecOld(r)
    \/ MoveIncNew(r)
    \/ UpdateCardPosition(r)

TxnStep(r) ==
    \/ Commit(r)
    \/ Rollback(r)

ListRequest(r) ==
    \/ \E bid \in BoardIds : nextListId <= MaxLists /\ PostList(r, bid)
    \/ \E id \in ListIds, t \in Targets : ReorderList(r, id, t)
    \/ \E id \in ListIds : DeleteList(r, id)
    \/ \E id \in ListIds : PutList(r, id)

ListStep(r) ==
    \/ PostListNextPos(r)
    \/ PostListInsert(r)
    \/ PutListRun(r)
    \/ DeleteListRun(r)

ReorderStep(r) ==
    \/ ReorderBegin(r)
    \/ ReorderFetch(r)
    \/ ReorderFetchAll(r)
    \/ ReorderUpdate(r)

\* card requests served one at a time, no store failure
Next ==
    \E r \in Reqs :
        \/ Quiescent /\ CardRequest(r)
        \/ PostCardStep(r)
        \/ CardStep(r)
        \/ MoveStep(r)
        \/ TxnStep(r)

Spec == Init /\ [][Next]_vars

\* list requests, and the creation, update and deletion of cards, served
\* one at a time, no store failure
ListsRequest(r) ==
    \/ ListRequest(r)
    \/ \E lid \in ListIds : nextCardId <= SmallCards /\ PostCard(r, lid)
    \/ \E id \in 1..SmallCards : DeleteCard(r, id)
    \/ \E id \in 1..SmallCards : PutCard(r, id)

NextLists ==
    \E r \in Reqs :
        \/ Quiescent /\ ListsRequest(r)
        \/ ListStep(r)
        \/ ReorderStep(r)
        \/ PostCardStep(r)
        \/ CardStep(r)
        \/ TxnStep(r)

SpecLists == Init /\ [][NextLists]_vars

\* one card move or list reorder at a time, any of its statements may fail
FailRequest(r) ==
    \/ \E lid \in 1..MaxTargetList : nextCardId <= SmallCards /\ PostCard(r, lid)
    \/ \E id \in 1..SmallCards, lid \in TargetLists, strict \in BOOLEAN,
          t \in Targets : MoveCard(r, id, lid, strict, t)
    \/ \E id \in 1..DefaultLists, t \in Targets : ReorderList(r, id, t)

FailStep(r) ==
    \/ BeginFails(r)
    \/ MoveStmtFails(r)
    \/ ReorderFetchFails(r)
    \/ ReorderUpdateFails(r)
    \/ CommitFails(r)

NextFail ==
    \E r \in Reqs :
        \/ Quiescent /\ FailRequest(r)
        \/ PostCardStep(r)
        \/ MoveStep(r)
        \/ ReorderStep(r)
        \/ TxnStep(r)
        \/ FailStep(r)

SpecFail == Init /\ [][NextFail]_vars

\* the connection runs the command at the head of its queue and the event
\* loop runs the command's callback, with or without error
ConnStep ==
    \E r \in Reqs :
        \/ PostCardStep(r)
        \/ MoveStep(r)
        \/ ReorderStep(r)
        \/ TxnStep(r)
        \/ FailStep(r)

\* one card move or list reorder at a time, any of its statements may
\* fail; a move names a list as a number, and a position 0..SmallCards-1
LiveRequest(r) ==
    \/ \E lid \in 1..MaxTargetList : nextCardId <= SmallCards /\ PostCard(r, lid)
    \/ \E id \in 1..SmallCards, lid \in TargetLists, t \in 0..(SmallCards - 1) :
            MoveCard(r, id, lid, TRUE, t)
    \/ \E id \in 1..DefaultLists, t \in Targets : ReorderList(r, id, t)

NextLive ==
    \/ \E r \in Reqs : Quiescent /\ LiveRequest(r)
    \/ ConnStep

\* the connection never stops serving its queue
SpecLive == Init /\ [][NextLive]_vars /\ WF_vars(ConnStep)

\* card moves that overlap on the shared connection, no store failure; cards
\* are created while no other request is in flight
\* (overlapping moves can push positions up or down without limit: a move is
\* taken up only while every position is within the targets)
ConcRequest(r) ==
    \/ \E lid \in 1..MaxTargetList :
            Quiescent /\ nextCardId <= SmallCards /\ PostCard(r, lid)
    \/ \E id \in 1..SmallCards, lid \in 1..MaxTargetList, t \in Targets :
            /\ \A c \in cards : c.position \in Targets
            /\ MoveCard(r, id, lid, TRUE, t)

NextConc ==
    \E r \in Reqs :
        \/ ConcRequest(r)
        \/ PostCardStep(r)
        \/ MoveStep(r)
        \/ TxnStep(r)

SpecConc == Init /\ [][NextConc]_vars

\* boards, their lists and the cards of the lists: creation, list reorder,
\* deletion and board load, served one at a time, no store failure
BoardsRequest(r) ==
    \/ nextBoardId <= MaxBoards /\ PostBoard(r)
    \/ \E bid \in 1..MaxBoards : nextListId <= MaxLists /\ PostList(r, bid)
    \/ \E id \in ListIds, t \in Targets : ReorderList(r, id, t)
    \/ \E id \in ListIds : DeleteList(r, id)
    \/ \E lid \in ListIds : nextCardId <= SmallCards /\ PostCard(r, lid)
    \/ \E id \in 1..SmallCards : DeleteCard(r, id)
    \/ \E bid \in 1..MaxBoards : GetBoard(r, bid)

BoardStep(r) ==
    \/ PostBoardInsert(r)
    \/ GetBoardFetch(r)
    \/ GetBoardLists(r)
    \/ GetBoardCards(r)

NextBoards ==
    \/ \E id \in 1..MaxBoards : DeleteBoardRow(id)
    \/ \E r \in Reqs :
        \/ Quiescent /\ BoardsRequest(r)
        \/ BoardStep(r)
        \/ PostListNextPos(r)
        \/ PostListInsert(r)
        \/ DeleteListRun(r)
        \/ ReorderStep(r)
        \/ PostCardStep(r)
        \/ DeleteCardRun(r)
        \/ TxnStep(r)

SpecBoards == Init /\ [][NextBoards]_vars

\* every route that writes a card or a list, served one at a time, no
\* store failure; board 2 is never created
AllRequest(r) ==
    \/ \E lid \in TargetLists : nextCardId <= SmallCards /\ PostCard(r, lid)
    \/ \E id \in 1..SmallCards, lid \in TargetLists, t \in Targets :
            MoveCard(r, id, lid, TRUE, t)
    \/ \E id \in 1..SmallCards : DeleteCard(r, id)
    \/ \E id \in 1..SmallCards : PutCard(r, id)
    \/ \E bid \in 1..MaxBoards : nextListId <= MaxLists /\ PostList(r, bid)
    \/ \E id \in ListIds, t \in Targets : ReorderList(r, id, t)
    \/ \E id \in 1..MaxTargetList : DeleteList(r, id)
    \/ \E id \in 1..MaxTargetList : PutList(r, id)

NextAll ==
    \E r \in Reqs :
        \/ Quiescent /\ AllRequest(r)
        \/ PostCardStep(r)
        \/ CardStep(r)
        \/ MoveStep(r)
        \/ ListStep(r)
        \/ ReorderStep(r)
        \/ TxnStep(r)

SpecAll == Init /\ [][NextAll]_vars

\* the due_date values of request bodies: absent, null, "", a day, a day
\* with a time of day behind "T", text that is no day
DueDates ==
    {Undefined, Null, Str(<<>>), Str(<<"2025-01-15">>),
     Str(<<"2025-02-01", "T", "23:30:00.000Z">>), Str(<<"15/01/2025">>)}

PostBodies ==
    {Body(Str(<<"t1">>), d, p, due) :
        d \in {Undefined, Str(<<"text">>)}, p \in {Undefined, Str(<<"high">>)},
        due \in DueDates}

PutBodies ==
    {Body(t, d, p, due) :
        t \in {Undefined, Str(<<"t2">>)},
        d \in {Undefined, Str(<<>>), Str(<<"text">>)},
        p \in {Undefined, Str(<<"high">>)},
        due \in DueDates}

\* cards created and updated with every body, list titles updated, served
\* one at a time, no store failure; every PUT /api/cards/:id body also
\* carries list_id and position
FieldsRequest(r) ==
    \/ \E body \in PostBodies :
            nextCardId <= SmallCards /\ PostCardBody(r, 1, body)
    \/ \E id \in 1..SmallCards, body \in PutBodies :
            PutCardBody(r, id, MaxTargetList, MaxPos, body)
    \/ \E id \in 1..MaxTargetList : PutList(r, id)

NextFields ==
    \E r \in Reqs :
        \/ Quiescent /\ FieldsRequest(r)
        \/ PostCardStep(r)
        \/ PutCardFetch(r)
        \/ PutCardUpdate(r)
        \/ PutListRun(r)

SpecFields == Init /\ [][NextFields]_vars

\* due_date values beside DueDates: a string of blanks and a number
BlankDate == Str(<<Blank>>)
NumberDate == JsVal("number", <<"20250115">>)
InputDates == DueDates \cup {BlankDate, NumberDate}

\* a body with or without a title
TitleBodies ==
    {Body(t, Undefined, Undefined, Undefined) : t \in {Undefined, Str(<<"t1">>)}}

\* cards, lists and boards created with and without a title, cards created
\* and updated with every due_date, and the board loaded, served one at a
\* time, no store failure
InputRequest(r) ==
    \/ \E t \in {Undefined, Str(<<"t1">>)}, due \in InputDates :
            /\ nextCardId <= SmallCards
            /\ PostCardBody(r, 1, Body(t, Undefined, Undefined, due))
    \/ \E id \in 1..SmallCards, due \in InputDates :
            PutCardBody(r, id, 0, 0, Body(Undefined, Undefined, Undefined, due))
    \/ \E body \in TitleBodies :
            nextListId <= MaxLists /\ PostListBody(r, 1, body)
    \/ \E body \in TitleBodies :
            nextBoardId <= MaxBoards /\ PostBoardBody(r, body)
    \/ GetBoard(r, 1)

NextInput ==
    \E r \in Reqs :
        \/ Quiescent /\ InputRequest(r)
        \/ PostCardStep(r)
        \/ PutCardFetch(r)
        \/ PutCardUpdate(r)
        \/ PostListNextPos(r)
        \/ PostListInsert(r)
        \/ BoardStep(r)

SpecInput == Init /\ [][NextInput]_vars

\* the start of the server, with boards created while it runs; after it
\* lists are created and renamed and boards created, one request at a time
StartRequest(r) ==
    \/ nextBoardId <= MaxBoards /\ PostBoard(r)
    \/ \E bid \in 1..MaxBoards :
            Quiescent /\ nextListId <= MaxLists /\ PostList(r, bid)
    \/ \E id \in 1..MaxTargetList :
            /\ Quiescent
            /\ PutListBody(r, id, Body(Str(<<"t2">>), Undefined, Undefined,
                                       Undefined))

NextStart ==
    \E r \in Reqs :
        \/ StartRequest(r)
        \/ SeedCount(r)
        \/ SeedBoard(r)
        \/ SeedList(r)
        \/ PostBoardInsert(r)
        \/ PostListNextPos(r)
        \/ PostListInsert(r)
        \/ PutListRun(r)

SpecStart == InitStart /\ [][NextStart]_vars

\* every request of the busy period that is going on is one of ops
Among(ops) == Quiescent \/ \A s \in Reqs : req[s].op \in ops \cup {"none"}

\* a board load that overlaps one card move or one list reorder on the
\* shared connection, no store failure; a move may name a list that does
\* not exist and so end in ROLLBACK; cards are created while no other
\* request is in flight
ReadRequest(r) ==
    \/ \E lid \in 1..MaxTargetList :
            Quiescent /\ nextCardId <= SmallCards /\ PostCard(r, lid)
    \/ \E id \in 1..SmallCards, lid \in TargetLists, t \in 0..(SmallCards - 1) :
            Among({"getBoard"}) /\ MoveCard(r, id, lid, TRUE, t)
    \/ \E id \in 1..DefaultLists, t \in Targets :
            Among({"getBoard"}) /\ ReorderList(r, id, t)
    \/ Among({"moveCard", "reorderList"}) /\ GetBoard(r, 1)

NextRead ==
    \E r \in Reqs :
        \/ ReadRequest(r)
        \/ PostCardStep(r)
        \/ MoveStep(r)
        \/ ReorderStep(r)
        \/ GetBoardFetch(r)
        \/ GetBoardLists(r)
        \/ GetBoardCards(r)
        \/ TxnStep(r)

SpecRead == Init /\ [][NextRead]_vars

\* appends that overlap on the shared connection: two POST /api/cards, two
\* POST /api/lists, or a POST /api/cards and a card move; no store failure
AppendRequest(r) ==
    \/ \E lid \in 1..MaxTargetList :
            /\ Among({"postCard", "moveCard"})
            /\ nextCardId + Len(queue) <= MaxCards
            /\ PostCard(r, lid)
    \/ \E bid \in BoardIds :
            /\ Among({"postList"})
            /\ nextListId + Len(queue) <= MaxLists + 1
            /\ PostList(r, bid)
    \/ \E id \in CardIds, lid \in 1..MaxTargetList, t \in Targets :
            Among({"postCard"}) /\ MoveCard(r, id, lid, TRUE, t)

NextAppend ==
    \E r \in Reqs :
        \/ AppendRequest(r)
        \/ PostCardStep(r)
        \/ PostListNextPos(r)
        \/ PostListInsert(r)
        \/ MoveStep(r)
        \/ TxnStep(r)

SpecAppend == Init /\ [][NextAppend]_vars

\* card moves that overlap on the shared connection, one of whose
\* statements, or whose COMMIT, fails; cards are created while no other request is in
\* flight; the targets are the positions 0..SmallCards-1
FailConcRequest(r) ==
    \/ \E lid \in 1..MaxTargetList :
            Quiescent /\ nextCardId <= SmallCards /\ PostCard(r, lid)
    \/ \E id \in 1..SmallCards, lid \in 1..MaxTargetList,
          t \in 0..(SmallCards - 1) :
            /\ \A c \in cards : c.position \in Targets
            /\ MoveCard(r, id, lid, TRUE, t)

\* no statement has failed in the busy period that is going on
NoneFailed == \A s \in Reqs : req[s].failedAt = ""

NextFailConc ==
    \E r \in Reqs :
        \/ FailConcRequest(r)
        \/ PostCardStep(r)
        \/ MoveStep(r)
        \/ TxnStep(r)
        \/ NoneFailed /\ MoveStmtFails(r)
        \/ NoneFailed /\ CommitFails(r)

SpecFailConc == Init /\ [][NextFailConc]_vars

\* card moves that overlap on the shared connection and may name a list
\* that does not exist, so that a move can end in ROLLBACK; the targets are
\* the positions 0..SmallCards-1
IndepRequest(r) ==
    \/ \E lid \in 1..MaxTargetList :
            Quiescent /\ nextCardId <= SmallCards /\ PostCard(r, lid)
    \/ \E id \in 1..SmallCards, lid \in TargetLists, t \in 0..(SmallCards - 1) :
            /\ \A c \in cards : c.position \in Targets
            /\ MoveCard(r, id, lid, TRUE, t)

NextIndep ==
    \E r \in Reqs :
        \/ IndepRequest(r)
        \/ PostCardStep(r)
        \/ MoveStep(r)
        \/ TxnStep(r)

SpecIndep == Init /\ [][NextIndep]_vars

\* card creation, deletion and moves to any target position, in or out of
\* the range of the target list, served one at a time, no store failure
\* (out-of-range moves can push positions up or down without limit: a move
\* is taken up only while every position is among the targets)
WideRequest(r) ==
    \/ \E lid \in 1..MaxTargetList : nextCardId <= MaxCards /\ PostCard(r, lid)
    \/ \E id \in CardIds, lid \in 1..MaxTargetList, strict \in BOOLEAN,
          t \in WideTargets :
            /\ \A c \in cards : c.position \in WideTargets
            /\ MoveCard(r, id, lid, strict, t)
    \/ \E id \in CardIds : DeleteCard(r, id)

NextWide ==
    \E r \in Reqs :
        \/ Quiescent /\ WideRequest(r)
        \/ PostCardStep(r)
        \/ DeleteCardRun(r)
        \/ MoveStep(r)
        \/ TxnStep(r)

SpecWide == Init /\ [][NextWide]_vars

\* list reorders to any target index, served one at a time, on boards whose
\* lists have gaps (lists were deleted) or share a position (two POST
\* /api/lists overlapped on the shared connection); no store failure
ReorderAnyRequest(r) ==
    \/ \E bid \in BoardIds :
            /\ Among({"postList"})
            /\ nextListId + Len(queue) <= MaxLists + 1
            /\ PostList(r, bid)
    \/ \E id \in 1..(MaxLists + 1) : Quiescent /\ DeleteList(r, id)
    \/ \E id \in 1..(MaxLists + 1), t \in ReorderTargets :
            Quiescent /\ ReorderList(r, id, t)

NextReorderAny ==
    \E r \in Reqs :
        \/ ReorderAnyRequest(r)
        \/ PostListNextPos(r)
        \/ PostListInsert(r)
        \/ DeleteListRun(r)
        \/ ReorderStep(r)
        \/ TxnStep(r)

SpecReorderAny == Init /\ [][NextReorderAny]_vars

\* the SQLite revision: lists and cards are appended, one request at a
\* time; at most MaxCards cards and MaxCards lists are appended
SqliteRequest(r) ==
    \/ \E bid \in 1..MaxBoards :
            nextListId <= DefaultLists + MaxCards /\ SqlitePostList(r, bid)
    \/ \E lid \in TargetLists : nextCardId <= MaxCards /\ SqlitePostCard(r, lid)

NextSqlite ==
    \E r \in Reqs :
        \/ Quiescent /\ SqliteRequest(r)
        \/ SqliteListMaxPos(r)
        \/ SqliteListInsert(r)
        \/ SqliteCardMaxPos(r)
        \/ SqliteCardInsert(r)

SpecSqlite == Init /\ [][NextSqlite]_vars

\* ------------------------------------------------ properties
\* positions form the run 0, 1, ..., n-1: no gap, no duplicate
Dense(rows) == PositionsOf(rows) = 0..(Cardinality(rows) - 1)

\* the request answered last when requests are served one at a time
Last == req[FirstReq]

\* every request received so far has been answered, and Last is one of them
Answered(op) == Quiescent /\ Last.op = op /\ Last.status # 0

\* the row a request's :id named when the request came
BaseCard == CHOOSE c \in base.cards : c.id = Last.id
HadCard == \E c \in base.cards : c.id = Last.id

\* C1: served one at a time, after every completed card operation the
\* positions of the cards of every list are exactly 0..n-1
C1_CardDensity ==
    Quiescent => \A l \in lists : Dense(CardsOf(cards, l.id))

\* C3: deleting the card at position p of a dense list of n cards leaves
\* n-1 cards at positions 0..n-2: cards above p move down by one, cards
\* below p stay
C3_DeleteClosesGap ==
    (/\ Answered("deleteCard")
     /\ HadCard
     /\ Dense(CardsOf(base.cards, BaseCard.list_id)))
    => LET lid == BaseCard.list_id
           p == BaseCard.position
           before == CardsOf(base.cards, lid) \ {BaseCard}
       IN  /\ Last.status = 200
           /\ Dense(CardsOf(cards, lid))
           /\ CardsOf(cards, lid) =
                {IF d.position > p THEN [d EXCEPT !.position = @ - 1] ELSE d
                    : d \in before}

\* C5: in a dense list of n cards, moving the card at p to t in the same
\* list, 0 <= t <= n-1 and t # p, puts the card at t, moves the cards in
\* (p, t] down by one when t > p and the cards in [t, p) up by one when
\* t < p, leaves the others, and the list is dense afterwards
C5_MoveWithinList ==
    (/\ Answered("moveCard")
     /\ HadCard
     /\ BaseCard.list_id = Last.list_id
     /\ Dense(CardsOf(base.cards, Last.list_id))
     /\ Last.position <= Cardinality(CardsOf(base.cards, Last.list_id)) - 1
     /\ Last.position # BaseCard.position)
    => LET lid == Last.list_id
           p == BaseCard.position
           t == Last.position
       IN  /\ Last.status = 200
           /\ Dense(CardsOf(cards, lid))
           /\ CardsOf(cards, lid) =
                {IF d.id = Last.id THEN [d EXCEPT !.position = t]
                 ELSE IF t > p /\ d.position > p /\ d.position <= t
                    THEN [d EXCEPT !.position = @ - 1]
                 ELSE IF t < p /\ d.position >= t /\ d.position < p
                    THEN [d EXCEPT !.position = @ + 1]
                 ELSE d
                    : d \in CardsOf(base.cards, lid)}

\* the scenario of C5: [A, B, C], move C from 2 to 0, gives [C, A, B]
C5_Witness ==
    /\ Answered("moveCard")
    /\ Last.status = 200
    /\ HadCard
    /\ BaseCard.list_id = Last.list_id
    /\ Dense(CardsOf(base.cards, Last.list_id))
    /\ Cardinality(CardsOf(base.cards, Last.list_id)) = 3
    /\ BaseCard.position = 2
    /\ Last.position = 0

\* C6: moving a card from position p of dense list A (m cards) to position
\* t <= n of another existing dense list B (n cards) leaves A dense with m-1
\* cards (those above p moved down by one), B dense with n+1 cards (those
\* at t or above moved up by one) and the moved card in B at t
C6_MoveAcrossLists ==
    (/\ Answered("moveCard")
     /\ HadCard
     /\ BaseCard.list_id # Last.list_id
     /\ \E l \in base.lists : l.id = Last.list_id
     /\ Dense(CardsOf(base.cards, BaseCard.list_id))
     /\ Dense(CardsOf(base.cards, Last.list_id))
     /\ Last.position <= Cardinality(CardsOf(base.cards, Last.list_id)))
    => LET a == BaseCard.list_id
           b == Last.list_id
           p == BaseCard.position
           t == Last.position
       IN  /\ Last.status = 200
           /\ Dense(CardsOf(cards, a))
           /\ Dense(CardsOf(cards, b))
           /\ CardsOf(cards, a) =
                {IF d.position > p THEN [d EXCEPT !.position = @ - 1] ELSE d
                    : d \in CardsOf(base.cards, a) \ {BaseCard}}
           /\ CardsOf(cards, b) =
                {IF d.position >= t THEN [d EXCEPT !.position = @ + 1] ELSE d
                    : d \in CardsOf(base.cards, b)}
                \cup {[BaseCard EXCEPT !.list_id = b, !.position = t]}

\* a cross-list move that shifts cards in both lists: A = [X, Y], B = [Z],
\* X goes to the head of B
C6_Witness ==
    /\ Answered("moveCard")
    /\ Last.status = 200
    /\ HadCard
    /\ BaseCard.list_id # Last.list_id
    /\ Dense(CardsOf(base.cards, BaseCard.list_id))
    /\ Dense(CardsOf(base.cards, Last.list_id))
    /\ Cardinality(CardsOf(base.cards, BaseCard.list_id)) = 2
    /\ Cardinality(CardsOf(base.cards, Last.list_id)) = 1
    /\ BaseCard.position = 0
    /\ Last.position = 0

\* the first move of a round trip was a move inside a dense list to a
\* position of that list
RoundTrip ==
    /\ Answered("moveCard")
    /\ prev # NoPrev
    /\ Dense(CardsOf(prev.base.cards, Last.list_id))
    /\ prev.req.position <= Cardinality(CardsOf(prev.base.cards, Last.list_id)) - 1

\* C9: in a dense list, moving a card from p to t and then the same card
\* back from t to p restores the position of every card of the list
C9_MoveRoundTrip ==
    RoundTrip
    => /\ Last.status = 200
       /\ CardsOf(cards, Last.list_id) = CardsOf(prev.base.cards, Last.list_id)

\* a round trip 0 -> 2 -> 0 in a list of three cards
C9_Witness ==
    /\ RoundTrip
    /\ Last.status = 200
    /\ Cardinality(CardsOf(cards, Last.list_id)) = 3
    /\ prev.req.cur.position = 0
    /\ prev.req.position = 2
    /\ Last.cur.position = 2
    /\ Last.position = 0

\* C10: a move whose target list and position are the card's current list
\* and position answers success and changes no card
C10_NoOpMove ==
    (/\ Answered("moveCard")
     /\ HadCard
     /\ BaseCard.list_id = Last.list_id
     /\ BaseCard.position = Last.position)
    => /\ Last.status = 200
       /\ cards = base.cards

\* a no-op move of a card that has cards on both sides
C10_Witness ==
    /\ Answered("moveCard")
    /\ Last.status = 200
    /\ HadCard
    /\ BaseCard.list_id = Last.list_id
    /\ BaseCard.position = Last.position
    /\ Last.position = 1
    /\ Cardinality(CardsOf(base.cards, Last.list_id)) = 3

\* C2: served one at a time, after every completed list operation the
\* positions of the lists of every board are exactly 0..n-1
C2_ListDensity ==
    Quiescent => \A b \in boards : Dense(ListsOf(lists, b))

\* the position an append to a group must get: its largest position plus
\* one, or 0 when the group is empty
Appended(rows) ==
    IF rows = {} THEN 0
    ELSE (CHOOSE x \in PositionsOf(rows) : \A o \in rows : o.position <= x) + 1

\* C4: POST /cards (POST /lists) succeeds for an existing list (board), stores
\* the new item at the largest position of the target list (board) plus one,
\* or at 0 when it is empty, and returns that position
C4_Append ==
    /\ (Answered("postCard") /\ (\E l \in base.lists : l.id = Last.list_id))
        => /\ Last.status = 200
           /\ Last.out = Appended(CardsOf(base.cards, Last.list_id))
           /\ \E c \in cards :
                /\ c.id = Last.id
                /\ c.list_id = Last.list_id
                /\ c.position = Last.out
                /\ cards = base.cards \cup {c}
           /\ ~(\E c \in base.cards : c.id = Last.id)
    /\ (Answered("postList") /\ Last.list_id \in boards)
        => /\ Last.status = 200
           /\ Last.out = Appended(ListsOf(base.lists, Last.list_id))
           /\ lists = base.lists \cup
                {[id |-> Last.id, board_id |-> Last.list_id,
                  position |-> Last.out, title |-> Last.body.title]}
           /\ ~(\E l \in base.lists : l.id = Last.id)

\* a list appended behind the three seeded ones, after two cards were
\* appended to one list at positions 0 and 1
C4_Witness ==
    /\ Answered("postList")
    /\ Last.status = 200
    /\ Last.out = 3
    /\ \E c, d \in cards :
          c.list_id = d.list_id /\ c.id < d.id
            /\ c.position = 0 /\ d.position = 1

\* the tables are those the request found
Restored ==
    /\ cards = base.cards
    /\ lists = base.lists
    /\ committed = Snapshot(boards, base.lists, base.cards)

\* C7: a card move or list reorder running alone, one of whose statements
\* (the read, a range shift, the point update, a per-list rewrite, the
\* commit) fails, is answered with an error and leaves every position and
\* list_id as before the request; and no part of it is durable while it runs
C7_FailedMoveRollsBack ==
    /\ Last.op \in {"moveCard", "reorderList"} /\ ~Quiescent
        => /\ committed.cards = base.cards
           /\ committed.lists = base.lists
    /\ Last.op \in {"moveCard", "reorderList"} /\ Quiescent
            /\ Last.failedAt # ""
        => /\ Last.status = 500
           /\ ~inTxn
           /\ Restored

\* a cross-list move whose point update fails after both range shifts have
\* changed rows
C7_Witness ==
    /\ Answered("moveCard")
    /\ Last.failedAt = "moveUpdate"
    /\ Last.status = 500
    /\ Last.cur.list_id # Last.list_id
    /\ \E c \in base.cards :
          c.list_id = Last.cur.list_id /\ c.position > Last.cur.position
    /\ Restored

\* both slots hold card moves of one busy period, both answered with success
BothMoved ==
    /\ Quiescent
    /\ \A r \in Reqs : req[r].op = "moveCard" /\ req[r].status = 200

\* the lists a move touches: the list its card was in and its target list
Touched(r) ==
    {req[r].list_id} \cup {c.list_id : c \in {d \in base.cards : d.id = req[r].id}}

\* the cards table after the moves of slots r and s, one after the other
Serial(r, s) ==
    LET first == MoveCardAlone(base.cards, base.lists, req[r])
    IN  MoveCardAlone(first, base.lists, req[s])

\* the target of the move in slot r is a position of its target list as the
\* list was when the busy period began
InRange(r) ==
    LET n == Cardinality(CardsOf(base.cards, req[r].list_id))
        own == \E c \in base.cards :
                    c.id = req[r].id /\ c.list_id = req[r].list_id
    IN  req[r].position <= (IF own THEN n - 1 ELSE n)

\* C8: two card moves that touch a common list and overlap on the shared
\* connection, no statement failing, leave the cards as one of the two
\* serial executions would (here: both moves succeed, every list was dense
\* when they came and both targets were in range)
C8_SameGroupIsolation ==
    (/\ BothMoved
     /\ Touched("r1") \cap Touched("r2") # {}
     /\ \A l \in base.lists : Dense(CardsOf(base.cards, l.id))
     /\ \A r \in Reqs : InRange(r))
    => cards \in {Serial("r1", "r2"), Serial("r2", "r1")}

\* lemma: the handler run alone, step by step, leaves what MoveCardAlone
\* computes
MoveCardAloneAgrees ==
    Answered("moveCard") => cards = MoveCardAlone(base.cards, base.lists, Last)

\* the list a reorder request named, as it was when the request came
BaseList == CHOOSE l \in base.lists : l.id = Last.id
HadList == \E l \in base.lists : l.id = Last.id

\* C11: on a board whose n lists are densely positioned, a reorder of one of
\* them to index t, 0 <= t <= n-1, succeeds, puts that list at position t,
\* keeps the order of the other lists among themselves, leaves the board's
\* lists at positions 0..n-1, and changes no list of another board
C11_ReorderList ==
    (/\ Answered("reorderList")
     /\ HadList
     /\ Dense(ListsOf(base.lists, BaseList.board_id))
     /\ Last.position <= Cardinality(ListsOf(base.lists, BaseList.board_id)) - 1)
    => LET b == BaseList.board_id
           before == ListsOf(base.lists, b)
           after == ListsOf(lists, b)
           now(id) == CHOOSE l \in after : l.id = id
       IN  /\ Last.status = 200
           /\ {l.id : l \in after} = {l.id : l \in before}
           /\ Cardinality(after) = Cardinality(before)
           /\ Dense(after)
           /\ now(Last.id).position = Last.position
           /\ \A x, y \in before \ {BaseList} :
                x.position < y.position
                    => now(x.id).position < now(y.id).position
           /\ lists \ after = base.lists \ before

\* the first of three lists is moved to the end while a second board has a
\* list of its own
C11_Witness ==
    /\ Answered("reorderList")
    /\ Last.status = 200
    /\ HadList
    /\ Dense(ListsOf(base.lists, BaseList.board_id))
    /\ Cardinality(ListsOf(base.lists, BaseList.board_id)) = 3
    /\ BaseList.position = 0
    /\ Last.position = 2
    /\ \E l \in lists : l.board_id # BaseList.board_id

\* C12: a move of an existing card to a list_id that names no list is
\* answered 404 and changes no card
C12_MissingTargetList ==
    (/\ Answered("moveCard")
     /\ HadCard
     /\ ~(\E l \in base.lists : l.id = Last.list_id))
    => /\ Last.status = 404
       /\ cards = base.cards

\* the tables and the durable tables are those the request found, and no
\* transaction is open
Untouched ==
    /\ ~inTxn
    /\ Restored

\* C13: a card move for an id that names no card, and a list reorder for an
\* id that names no list, are answered 404 after a ROLLBACK (the one path of
\* these handlers that answers an error status), and leave every card and
\* list as it was
C13_MissingItem ==
    /\ (Answered("moveCard") /\ ~HadCard) => (Last.status = 404 /\ Untouched)
    /\ (Answered("reorderList") /\ ~HadList)
            => (Last.status = 404 /\ Untouched)
    /\ \A r \in Reqs :
            (req[r].op \in {"moveCard", "reorderList"} /\ req[r].status = 404)
                => req[r].err = 404

\* a reorder of a deleted list is refused on a board that has cards
C13_Witness ==
    /\ Answered("reorderList")
    /\ ~HadList
    /\ Last.status = 404
    /\ Last.id < nextListId
    /\ cards # {}
    /\ Untouched

\* C14: DELETE /cards/:id and DELETE /lists/:id for an id that names no
\* row are answered 404 and leave the store as it was
C14_DeleteMissing ==
    /\ (Answered("deleteCard") /\ ~HadCard) => (Last.status = 404 /\ Restored)
    /\ (Answered("deleteList") /\ ~HadList) => (Last.status = 404 /\ Restored)

\* every card is in a list of the table, every list on a board of the table
Referenced(b, l, c) ==
    /\ \A x \in c : \E y \in l : y.id = x.list_id
    /\ \A y \in l : y.board_id \in b

C16_CascadeDelete ==
    /\ (Answered("deleteList") /\ Last.status = 200)
        => /\ lists = {l \in base.lists : l.id # Last.id}
           /\ cards = {c \in base.cards : c.list_id # Last.id}
    /\ Answered("deleteBoardRow")
        => /\ Last.id \notin boards
           /\ lists = {l \in base.lists : l.board_id # Last.id}
           /\ cards = {c \in base.cards :
                        \E l \in base.lists :
                            l.id = c.list_id /\ l.board_id # Last.id}

\* a board that had a list with a card is deleted while a card of another
\* board stays
C16_Witness ==
    /\ Answered("deleteBoardRow")
    /\ \E c \in base.cards : \E l \in base.lists :
            l.id = c.list_id /\ l.board_id = Last.id
    /\ cards # {}
    /\ Cardinality(cards) < Cardinality(base.cards)

\* positions never go down along the sequence
Ascending(s) == \A i, j \in 1..Len(s) : i < j => s[i].position <= s[j].position

\* the sequence holds every row of the set once, by id and position
Lists(s, rows) ==
    /\ Len(s) = Cardinality(rows)
    /\ {[id |-> s[i].id, position |-> s[i].position] : i \in 1..Len(s)}
            = {[id |-> x.id, position |-> x.position] : x \in rows}

\* C17: GET /boards/:id of an existing board answers 200 with all lists of
\* the board in ascending order of position and, in each, all cards of the
\* list in ascending order of position; where positions are dense the k-th
\* item has position k (counted from 0); a missing board is answered 404
C17_BoardLoad ==
    /\ (Answered("getBoard") /\ Last.id \in boards)
        => /\ Last.status = 200
           /\ Lists(Last.out, ListsOf(lists, Last.id))
           /\ Ascending(Last.out)
           /\ Dense(ListsOf(lists, Last.id))
                => \A k \in 1..Len(Last.out) : Last.out[k].position = k - 1
           /\ \A k \in 1..Len(Last.out) :
                LET item == Last.out[k]
                    rows == CardsOf(cards, item.id)
                IN  /\ Lists(item.cards, rows)
                    /\ Ascending(item.cards)
                    /\ Dense(rows)
                        => \A i \in 1..Len(item.cards) :
                                item.cards[i].position = i - 1
    /\ (Answered("getBoard") /\ Last.id \notin boards) => Last.status = 404

\* a board is loaded whose lists have been reordered and one of whose lists
\* has two cards
C17_Witness ==
    /\ Answered("getBoard")
    /\ Last.status = 200
    /\ Len(Last.out) >= 3
    /\ \E i, j \in 1..Len(Last.out) : i < j /\ Last.out[i].id > Last.out[j].id
    /\ \E k \in 1..Len(Last.out) : Len(Last.out[k].cards) = 2

\* where a card is: its id, list and position
Slots(cs) ==
    {[id |-> c.id, list_id |-> c.list_id, position |-> c.position] : c \in cs}

\* C18: PUT /cards/:id and PUT /lists/:id change no position, no list_id and
\* no board_id, also when the body carries list_id and position
C18_UpdateKeepsPosition ==
    (Last.op \in {"putCard", "putList"})
    => /\ Slots(cards) = Slots(base.cards)
       /\ lists = base.lists
       /\ Slots(committed.cards) = Slots(base.cards)
       /\ committed.lists = base.lists

\* the second of two cards of list 1 was updated with a body that names
\* list 2 and position 2 beside a new title
C18_Witness ==
    /\ Answered("putCard")
    /\ Last.status = 200
    /\ Last.list_id = MaxTargetList
    /\ Last.position = MaxPos
    /\ Last.body.title = Str(<<"t2">>)
    /\ \E c \in cards :
            /\ c.id = Last.id
            /\ c.list_id = 1
            /\ c.position = 1
            /\ c.title = Str(<<"t2">>)

\* the fields a card update may set
Fields == {"title", "description", "priority", "due_date"}

DisjointMoves ==
    /\ Quiescent
    /\ \A r \in Reqs :
            /\ req[r].op = "moveCard"
            /\ req[r].status # 0
            /\ \E c \in base.cards : c.id = req[r].id
    /\ Touched("r1") \cap Touched("r2") = {}

DisjointMovesBothSucceed ==
    (DisjointMoves /\ \A r \in Reqs : req[r].status = 200)
    => /\ cards = Serial("r1", "r2")
       /\ cards = Serial("r2", "r1")
       /\ committed.cards = cards

\* the request body's due_date is a string whose part before the first "T"
\* is a calendar day
SubmitsDay(rec) ==
    /\ rec.op \in {"postCard", "putCard"}
    /\ rec.body.due_date.kind = "string"
    /\ MatchesDate(BeforeT(rec.body.due_date.toks))

\* that day, as the string YYYY-MM-DD
SubmittedDay(rec) == Str(BeforeT(rec.body.due_date.toks))

\* C21: a due_date sent to POST /cards or PUT /cards/:id as YYYY-MM-DD, with
\* or without a time part behind "T", is never refused as malformed; when
\* the request succeeds the response carries that same YYYY-MM-DD, the row
\* stores that day, and a GET /boards/:id that follows returns the card with
\* that same YYYY-MM-DD
C21_DueDateRoundTrip ==
    /\ (Quiescent /\ SubmitsDay(Last))
        => /\ Last.status \in {200, 404, 500}
           /\ Last.status = 200
                => /\ Last.date = SubmittedDay(Last)
                   /\ \E c \in cards :
                        /\ c.id = Last.id
                        /\ c.due_date = DateObject(SubmittedDay(Last).toks[1])
    /\ (Answered("getBoard") /\ prev # NoPrev /\ SubmitsDay(prev.req))
        => /\ Last.status = 200
           /\ \E k \in 1..Len(Last.out) :
                \E i \in 1..Len(Last.out[k].cards) :
                    Last.out[k].cards[i].id = prev.req.id
           /\ \A k \in 1..Len(Last.out) :
                \A i \in 1..Len(Last.out[k].cards) :
                    Last.out[k].cards[i].id = prev.req.id
                        => Last.out[k].cards[i].due_date
                                = SubmittedDay(prev.req)

\* a card created with one day was given another day with a time part by a
\* PUT, and the board load that follows returns it with that other day
C21_Witness ==
    /\ Answered("getBoard")
    /\ Last.status = 200
    /\ prev # NoPrev
    /\ prev.req.op = "putCard"
    /\ prev.req.body.due_date = Str(<<"2025-02-01", "T", "23:30:00.000Z">>)
    /\ prev.req.cur.due_date = DateObject("2025-01-15")
    /\ prev.req.date = Str(<<"2025-02-01">>)
    /\ \E k \in 1..Len(Last.out) :
            \E i \in 1..Len(Last.out[k].cards) :
                /\ Last.out[k].cards[i].id = prev.req.id
                /\ Last.out[k].cards[i].due_date = Str(<<"2025-02-01">>)

\* the request body's due_date is a non-empty string whose part before the
\* first "T" is no YYYY-MM-DD
SubmitsMalformed(rec) ==
    /\ rec.op \in {"postCard", "putCard"}
    /\ rec.body.due_date.kind = "string"
    /\ rec.body.due_date.toks # <<>>
    /\ ~MatchesDate(BeforeT(rec.body.due_date.toks))

\* C22: POST /cards with a title, and PUT /cards/:id of an existing card,
\* with a non-empty due_date whose part before the first "T" is no YYYY-MM-DD is
\* answered 400, creates no card and changes no field of any card
C22_MalformedDate ==
    (/\ Quiescent
     /\ SubmitsMalformed(Last)
     /\ Last.op = "postCard" => Last.body.title.kind = "string"
     /\ Last.op = "putCard" => HadCard)
    => /\ Last.status = 400
       /\ cards = base.cards

\* lemma: a malformed due_date that is not made of blanks alone is answered
\* 400 and nothing is stored
MalformedDateRefused ==
    (/\ Quiescent
     /\ SubmitsMalformed(Last)
     /\ Trim(Last.body.due_date.toks) # <<>>
     /\ Last.op = "putCard" => HadCard)
    => /\ Last.status = 400
       /\ cards = base.cards
       /\ committed.cards = base.cards

\* C23: POST /cards, POST /lists and POST /boards with a body that has no
\* title are answered 400 and create no row
C23_MissingTitle ==
    (/\ Quiescent
     /\ Last.op \in {"postCard", "postList", "postBoard"}
     /\ Last.body.title = Undefined)
    => /\ Last.status = 400
       /\ cards = base.cards
       /\ lists = base.lists
       /\ nextBoardId \notin boards

\* the start of the server has run all its statements and no request has
\* been taken up since the connection was idle
StartDone ==
    /\ Last.op = "start"
    /\ \A i \in 1..Len(queue) : queue[i].r # FirstReq

\* the boards the start found, and the boards POST /boards created while
\* the start ran
FoundBoards == 1..Last.position
PostedBoards ==
    {req[r].id : r \in {x \in Reqs \ {FirstReq} :
                            req[x].op = "postBoard" /\ req[x].status = 200}}

\* C24: the start of the server creates, if and only if it found the boards
\* table empty, exactly one board and for it exactly three lists, "To Do"
\* at position 0, "In Progress" at 1 and "Done" at 2; if it found a board it
\* creates no board and no list
C24_DefaultSeeding ==
    StartDone
    => LET made == boards \ (FoundBoards \cup PostedBoards)
           added == lists \ base.lists
       IN  /\ base.lists \subseteq lists
           /\ committed = Snapshot(boards, lists, cards)
           /\ IF Last.position = 0
                 THEN /\ made = {Last.id}
                      /\ Cardinality(added) = 3
                      /\ {[board_id |-> l.board_id, title |-> l.title,
                           position |-> l.position] : l \in added}
                            = {[board_id |-> Last.id,
                                title |-> Str(<<"To Do">>), position |-> 0],
                               [board_id |-> Last.id,
                                title |-> Str(<<"In Progress">>),
                                position |-> 1],
                               [board_id |-> Last.id,
                                title |-> Str(<<"Done">>), position |-> 2]}
                 ELSE /\ made = {}
                      /\ added = {}

\* a first start has seeded its board and the three lists while a POST
\* /boards that came during the start created a board of its own
C24_Witness ==
    /\ StartDone
    /\ Quiescent
    /\ Last.position = 0
    /\ PostedBoards = {1}
    /\ Last.id = 2
    /\ Cardinality(ListsOf(lists, 2)) = 3
    /\ ListsOf(lists, 1) = {}

\* lemma: a first start with no request in its way leaves the store Init
\* describes
StartLeavesInit ==
    (StartDone /\ Quiescent /\ Last.position = 0 /\ PostedBoards = {})
    => /\ boards = {1}
       /\ lists = {[id |-> i, board_id |-> 1, position |-> i - 1,
                    title |-> DefaultTitles[i]] : i \in 1..DefaultLists}
       /\ nextListId = DefaultLists + 1
       /\ nextBoardId = 2

\* when the busy period began the lists of every board and the cards of
\* every list were densely positioned
BaseDense ==
    /\ \A b \in boards : Dense(ListsOf(base.lists, b))
    /\ \A l \in base.lists : Dense(CardsOf(base.cards, l.id))

\* the k-th item of the sequence has position k, counted from 0
Consecutive(s) == \A k \in 1..Len(s) : s[k].position = k - 1

\* the board load returned the lists and cards the busy period began with
ReturnedBase(out) ==
    /\ Lists(out, ListsOf(base.lists, 1))
    /\ \A k \in 1..Len(out) :
            Lists(out[k].cards, CardsOf(base.cards, out[k].id))

\* C25: a GET /boards/:id that overlaps a card move or a list reorder on the
\* shared connection (lists and cards dense before, the move's target in
\* range) returns lists at positions 0, 1, ... and in each list cards at
\* positions 0, 1, ..., and, if the move or reorder ended in ROLLBACK, the
\* lists and cards as they were before it
C25_ReadsAreIsolated ==
    \A r \in Reqs :
        (/\ Quiescent
         /\ req[r].op = "getBoard"
         /\ req[r].status = 200
         /\ BaseDense
         /\ \A s \in Reqs : req[s].op = "moveCard" => InRange(s))
        => /\ Consecutive(req[r].out)
           /\ \A k \in 1..Len(req[r].out) : Consecutive(req[r].out[k].cards)
           /\ (\A s \in Reqs \ {r} : req[s].status \in {404, 500})
                => ReturnedBase(req[r].out)

\* lemma: a board load that overlaps a list reorder returns the lists at
\* positions 0, 1, ...: the reorder queues its UPDATEs in one block, and no
\* query of the load can be queued inside the block
ReorderReadsConsecutive ==
    \A r \in Reqs :
        (/\ Quiescent
         /\ req[r].op = "getBoard"
         /\ req[r].status = 200
         /\ BaseDense
         /\ \A s \in Reqs \ {r} : req[s].op = "reorderList")
        => Consecutive(req[r].out)

\* no two rows have the same position
NoSharedPosition(rows) ==
    \A x, y \in rows : x.id # y.id => x.position # y.position

\* C26: appends that overlap on the shared connection (two POST /cards, two
\* POST /lists, or a POST /cards and a card move with its target in range),
\* all answered with success, on lists and cards that were dense before,
\* leave no two cards of a list and no two lists of a board at the same
\* position
C26_AppendsAreIsolated ==
    (/\ Quiescent
     /\ BaseDense
     /\ \A r \in Reqs :
            /\ req[r].op \in {"postCard", "postList", "moveCard", "none"}
            /\ req[r].op # "none" => req[r].status = 200
            /\ req[r].op = "moveCard" => InRange(r))
    => /\ \A l \in lists : NoSharedPosition(CardsOf(cards, l.id))
       /\ \A b \in boards : NoSharedPosition(ListsOf(lists, b))

\* the cards after the move of slot r if it was answered with success, the
\* same cards if it was answered with an error
Applied(cs, r) ==
    IF req[r].status = 200 THEN MoveCardAlone(cs, base.lists, req[r]) ELSE cs

\* C27: when a statement of a card move fails while a second move is in
\* flight on the shared connection (every list dense before, both targets
\* in range), then after both are answered the durable cards hold all the
\* writes of each move answered with success and none of the writes of each
\* move answered with an error, and no transaction is left open
C27_FailureUnderInterleaving ==
    (/\ Quiescent
     /\ \A r \in Reqs :
            /\ req[r].op = "moveCard"
            /\ req[r].status # 0
            /\ \E c \in base.cards : c.id = req[r].id
            /\ InRange(r)
     /\ BaseDense
     /\ \E r \in Reqs : req[r].failedAt # "")
    => /\ cards \in {Applied(Applied(base.cards, "r1"), "r2"),
                     Applied(Applied(base.cards, "r2"), "r1")}
       /\ committed.cards = cards
       /\ ~inTxn

\* slot r holds a card move or a list reorder
Moving(r) == req[r].op \in {"moveCard", "reorderList"}

\* the handler in slot r has sent its one response, after the one COMMIT or
\* ROLLBACK that ended the transaction it had begun, if it had begun one
Outcome(r) ==
    /\ req[r].status \in {200, 404, 500}
    /\ req[r].sent = 1
    /\ req[r].ended = req[r].begun

\* at no time has a handler begun a second transaction, ended more
\* transactions than it began, or sent a second response; a response is
\* sent only after the transaction was ended; and no handler stops without a
\* response
OneOutcome ==
    \A r \in Reqs :
        Moving(r)
        => /\ req[r].begun <= 1
           /\ req[r].ended <= req[r].begun
           /\ req[r].sent <= 1
           /\ req[r].status # 0 => Outcome(r)
           /\ Quiescent => req[r].status # 0

\* C28: every card move and list reorder, whether it succeeds, finds no
\* item, or has a statement or its COMMIT fail, in the end sends exactly one
\* response; the transaction it began is ended by exactly one COMMIT or
\* ROLLBACK before the response; no statement is run a second time
C28_MoveTerminates ==
    /\ []OneOutcome
    /\ \A r \in Reqs : (Moving(r) /\ req[r].status = 0) ~> Outcome(r)

\* a list reorder whose COMMIT failed was rolled back and answered 500
C28_Witness ==
    /\ Answered("reorderList")
    /\ Last.failedAt = "commit"
    /\ Outcome(FirstReq)
    /\ Last.status = 500
    /\ Last.begun = 1

\* the UPDATEs of a range of positions and the UPDATEs of one card the
\* last move issued
Work == <<Last.ranges, Last.points>>

\* C29: a move of an existing card issues at most 2 range UPDATEs and 1
\* point UPDATE whatever the number of cards in the lists: 1 range and 1
\* point when it moves the card inside its list, 2 range and 1 point when it
\* moves the card to another list, and no UPDATE when the target list and
\* position are those the card has
C29_BoundedWork ==
    (Answered("moveCard") /\ HadCard)
    => /\ Last.ranges <= 2
       /\ Last.points <= 1
       /\ IF BaseCard.list_id # Last.list_id THEN Work = <<2, 1>>
          ELSE IF BaseCard.position # Last.position THEN Work = <<1, 1>>
          ELSE Work = <<0, 0>>

\* lemma: the counts of C29 hold for every move whose body has list_id as a
\* number, and no move issues more than 2 range UPDATEs and 1 point UPDATE
BoundedWorkNumericIds ==
    (Answered("moveCard") /\ HadCard)
    => /\ Last.ranges <= 2
       /\ Last.points <= 1
       /\ Last.strict
            => IF BaseCard.list_id # Last.list_id THEN Work = <<2, 1>>
               ELSE IF BaseCard.position # Last.position THEN Work = <<1, 1>>
               ELSE Work = <<0, 0>>

\* the rows a move of BaseCard to Last.list_id, Last.position may change:
\* inside one list those at the positions from p to t, both included;
\* across lists those of the source list at p or above and those of the
\* target list at t or above
InFrame(row) ==
    LET p == BaseCard.position
        t == Last.position
    IN  IF BaseCard.list_id = Last.list_id
           THEN /\ row.list_id = Last.list_id
                /\ (IF p <= t THEN p ELSE t) <= row.position
                /\ row.position <= (IF p <= t THEN t ELSE p)
           ELSE \/ row.list_id = BaseCard.list_id /\ row.position >= p
                \/ row.list_id = Last.list_id /\ row.position >= t

\* C30: a card move, whatever its outcome, creates and deletes no card,
\* changes no field of a card other than list_id and position, and changes
\* only rows in its frame: within a list the cards between the old and the
\* new position, across lists the cards of the source list from the old
\* position on and those of the target list from the new position on; the
\* cards of every other list stay as they were
C30_MoveFrame ==
    (Answered("moveCard") /\ HadCard)
    => /\ {c.id : c \in cards} = {b.id : b \in base.cards}
       /\ Cardinality(cards) = Cardinality(base.cards)
       /\ lists = base.lists
       /\ \A b \in base.cards :
            \E c \in cards :
                /\ c = [b EXCEPT !.list_id = c.list_id,
                                 !.position = c.position]
                /\ c # b => InFrame(b)
                /\ (c.list_id # b.list_id) => c.id = Last.id

\* the first of two cards of a list went behind the one card of another
\* list: the second card of the source list moved up, the card of the target
\* list stayed
C30_Witness ==
    /\ Answered("moveCard")
    /\ Last.status = 200
    /\ HadCard
    /\ BaseCard.list_id # Last.list_id
    /\ BaseCard.position = 0
    /\ Last.position = 1
    /\ Cardinality(CardsOf(base.cards, BaseCard.list_id)) = 2
    /\ \E c \in cards : c \notin base.cards /\ c.id # Last.id
    /\ \E c \in cards : c \in base.cards /\ c.list_id = Last.list_id

\* C31: POST /cards and POST /lists, whatever their outcome, leave every
\* card and every list that existed as it was; on success exactly one row is
\* added, and the position of the response is the position stored in it
C31_AppendFrame ==
    /\ Answered("postCard")
        => /\ lists = base.lists
           /\ base.cards \subseteq cards
           /\ IF Last.status = 200
                 THEN \E c \in cards :
                        /\ c.id = Last.id
                        /\ ~(\E b \in base.cards : b.id = c.id)
                        /\ cards = base.cards \cup {c}
                        /\ c.position = Last.out
                 ELSE cards = base.cards
    /\ Answered("postList")
        => /\ cards = base.cards
           /\ base.lists \subseteq lists
           /\ IF Last.status = 200
                 THEN \E l \in lists :
                        /\ l.id = Last.id
                        /\ ~(\E b \in base.lists : b.id = l.id)
                        /\ lists = base.lists \cup {l}
                        /\ l.position = Last.out
                 ELSE lists = base.lists

\* a card appended behind a card of its list, on a board whose lists have
\* a gap in their positions and a list appended behind the seeded ones
C31_Witness ==
    /\ Answered("postCard")
    /\ Last.status = 200
    /\ Last.out = 1
    /\ \E b \in base.cards : b.list_id = Last.list_id /\ b.position = 0
    /\ ~Dense(ListsOf(lists, 1))
    /\ \E l \in lists : l.id > DefaultLists

\* C32: in the SQLite revision POST /cards and POST /lists store the new
\* item at the largest position of its group plus one, or at 0 when the
\* group is empty, so the items appended to an empty group have distinct
\* positions
C32_SqliteAppend ==
    /\ (Answered("postCard") /\ Last.status = 200)
        => /\ Last.out = Appended(CardsOf(base.cards, Last.list_id))
           /\ \A c, d \in CardsOf(cards, Last.list_id) :
                c.id # d.id => c.position # d.position
    /\ (Answered("postList") /\ Last.status = 200)
        => /\ Last.out = Appended(ListsOf(base.lists, Last.list_id))
           /\ \A l, m \in ListsOf(lists, Last.list_id) :
                l.id # m.id => l.position # m.position

\* the SQLite revision appends at the largest position plus one to a group
\* whose largest position is 1 or more, and at 0 to an empty group
SqliteAppendAboveOne ==
    /\ (Answered("postCard")
            /\ \/ CardsOf(base.cards, Last.list_id) = {}
               \/ \E c \in CardsOf(base.cards, Last.list_id) : c.position >= 1)
        => /\ Last.status = 200
           /\ Last.out = Appended(CardsOf(base.cards, Last.list_id))
    /\ (Answered("postList")
            /\ \/ ListsOf(base.lists, Last.list_id) = {}
               \/ \E l \in ListsOf(base.lists, Last.list_id) : l.position >= 1)
        => /\ Last.status = 200
           /\ Last.out = Appended(ListsOf(base.lists, Last.list_id))

\* C33: a successful move stores the requested position on the moved card
\* as it is.  Within a dense list of n cards the list is dense afterwards
\* exactly when 0 <= t <= n-1; across lists a dense target list of n cards
\* is dense afterwards exactly when 0 <= t <= n, and a dense source list is
\* dense afterwards whatever t is
C33_DenseIffInRange ==
    (Answered("moveCard") /\ Last.status = 200 /\ HadCard)
    => LET a == BaseCard.list_id
           b == Last.list_id
           t == Last.position
           n == Cardinality(CardsOf(base.cards, b))
       IN  /\ \E c \in cards :
                c.id = Last.id /\ c.list_id = b /\ c.position = t
           /\ (a = b /\ Dense(CardsOf(base.cards, b)))
                => (Dense(CardsOf(cards, b)) <=> (0 <= t /\ t <= n - 1))
           /\ (a # b /\ Dense(CardsOf(base.cards, b)))
                => (Dense(CardsOf(cards, b)) <=> (0 <= t /\ t <= n))
           /\ (a # b /\ Dense(CardsOf(base.cards, a)))
                => Dense(CardsOf(cards, a))

\* the first card of a dense list of three was moved to position 3 of that
\* list: the list has lost its density
C33_Witness ==
    /\ Answered("moveCard")
    /\ Last.status = 200
    /\ HadCard
    /\ BaseCard.list_id = Last.list_id
    /\ Dense(CardsOf(base.cards, Last.list_id))
    /\ Cardinality(CardsOf(base.cards, Last.list_id)) = MaxCards
    /\ BaseCard.position = 0
    /\ Last.position = MaxCards
    /\ PositionsOf(CardsOf(cards, Last.list_id)) = {0, 1, MaxCards}

\* C34: served one at a time, whatever card creations, deletions and moves
\* to any integer target came, no two cards of a list have the same
\* position, in the tables between two requests and in the committed tables
\* at every moment
C34_UniquePositions ==
    /\ \A c, d \in committed.cards :
            (c.id # d.id /\ c.list_id = d.list_id) => c.position # d.position
    /\ Quiescent
        => \A c, d \in cards :
            (c.id # d.id /\ c.list_id = d.list_id) => c.position # d.position

\* a list that has lost its density on both sides, after a card was deleted:
\* one card below 0, one beyond the number of cards
C34_Witness ==
    /\ Quiescent
    /\ Cardinality(cards) < nextCardId - 1
    /\ \E c, d \in cards :
        /\ c.list_id = d.list_id
        /\ c.position < 0
        /\ d.position > Cardinality(CardsOf(cards, d.list_id))
    /\ \E r \in Reqs : req[r].op = "moveCard" /\ req[r].status = 200

\* C35: a card move, whatever its target and its outcome, keeps any two
\* cards other than the moved one that shared a list in one list, and in
\* the order of their positions they had
C35_OthersKeepOrder ==
    (Answered("moveCard") /\ HadCard)
    => \A x, y \in base.cards :
        (x.id # Last.id /\ y.id # Last.id /\ x.list_id = y.list_id)
        => \E c, d \in cards :
            /\ c.id = x.id
            /\ d.id = y.id
            /\ c.list_id = d.list_id
            /\ (c.position < d.position) <=> (x.position < y.position)
            /\ (c.position = d.position) <=> (x.position = y.position)

\* the middle card of three went below position 0 of its list: the first
\* card moved up by one, the last stayed, and they kept their order
C35_Witness ==
    /\ Answered("moveCard")
    /\ Last.status = 200
    /\ HadCard
    /\ BaseCard.list_id = Last.list_id
    /\ BaseCard.position = 1
    /\ Last.position < 0
    /\ \E x, y \in base.cards :
        /\ x.list_id = Last.list_id /\ x.position = 0
        /\ y.list_id = Last.list_id /\ y.position = 2
        /\ \E c, d \in cards :
            /\ c.id = x.id /\ d.id = y.id
            /\ c.position = 1 /\ d.position = 2

\* C36: a move whose list_id names the card's own list but is sent as a
\* string runs the two range UPDATEs and the point UPDATE of the cross-list
\* branch on that one list; for a dense list of n cards and 0 <= t <= n-1
\* every card ends where the within-list branch puts it for the same card
\* and target
C36_BranchEquivalence ==
    (/\ Answered("moveCard")
     /\ HadCard
     /\ ~Last.strict
     /\ BaseCard.list_id = Last.list_id
     /\ Dense(CardsOf(base.cards, Last.list_id))
     /\ 0 <= Last.position
     /\ Last.position <= Cardinality(CardsOf(base.cards, Last.list_id)) - 1)
    => /\ Last.status = 200
       /\ Last.ranges = 2
       /\ Last.points = 1
       /\ SameList([Last EXCEPT !.strict = TRUE], BaseCard)
       /\ cards = MoveCardAlone(base.cards, base.lists,
                                [Last EXCEPT !.strict = TRUE])

\* the last card of a dense list of three went to the head of the list by a
\* request that named the list as a string
C36_Witness ==
    /\ Answered("moveCard")
    /\ Last.status = 200
    /\ HadCard
    /\ ~Last.strict
    /\ BaseCard.list_id = Last.list_id
    /\ Dense(CardsOf(base.cards, Last.list_id))
    /\ Cardinality(CardsOf(base.cards, Last.list_id)) = MaxCards
    /\ BaseCard.position = MaxCards - 1
    /\ Last.position = 0
    /\ Last.ranges = 2
    /\ cards # base.cards

\* C37: a successful list reorder leaves the n lists of the board at the
\* positions 0..n-1, whatever positions they had (gaps, shared positions)
\* and whatever integer index t was asked for; the moved list is at t for
\* 0 <= t < n-1, last for t >= n-1, and at n-1+t, or 0 if that is negative,
\* for t < 0
C37_ReorderRedensifies ==
    (Answered("reorderList") /\ Last.status = 200)
    => /\ HadList
       /\ LET bid == BaseList.board_id
              before == ListsOf(base.lists, bid)
              after == ListsOf(lists, bid)
              n == Cardinality(before)
              t == Last.position
          IN  /\ {l.id : l \in after} = {l.id : l \in before}
              /\ Cardinality(after) = n
              /\ PositionsOf(after) = 0..(n - 1)
              /\ \E l \in after :
                    /\ l.id = Last.id
                    /\ l.position =
                        IF t >= n - 1 THEN n - 1
                        ELSE IF t >= 0 THEN t
                        ELSE IF n - 1 + t > 0 THEN n - 1 + t
                        ELSE 0

\* four lists, two of them at one position and one slot empty, and a
\* reorder to index -1: the moved list is third of four
C37_Witness ==
    /\ Answered("reorderList")
    /\ Last.status = 200
    /\ HadList
    /\ Last.position = 0 - 1
    /\ Cardinality(ListsOf(base.lists, BaseList.board_id)) = 4
    /\ ~NoSharedPosition(ListsOf(base.lists, BaseList.board_id))
    /\ \E p \in 0..2 : p \notin PositionsOf(ListsOf(base.lists, BaseList.board_id))
    /\ \E l \in lists : l.id = Last.id /\ l.position = 2

\* the card the deletion before the last request removed
Deleted == CHOOSE c \in prev.base.cards : c.id = prev.req.id

\* the last request is a card creation that came right after the deletion
\* of a card of the same list, which was dense with the deleted card
AfterDelete ==
    /\ Answered("postCard")
    /\ prev # NoPrev
    /\ prev.req.op = "deleteCard"
    /\ Dense(CardsOf(prev.base.cards, Last.list_id))

\* C38: DELETE /cards/:id removes the one card and changes no other row, so
\* a dense list of n cards is dense afterwards exactly when the deleted card
\* was at n-1; a POST /cards into the list that follows the deletion of the
\* card at p < n-1 is stored and answered with position n
C38_DeleteKeepsTail ==
    /\ Answered("deleteCard")
        => /\ Last.status = 200
           /\ lists = base.lists
           /\ cards = {c \in base.cards : c.id # Last.id}
           /\ (HadCard /\ Dense(CardsOf(base.cards, BaseCard.list_id)))
                => (Dense(CardsOf(cards, BaseCard.list_id))
                    <=> BaseCard.position =
                          Cardinality(CardsOf(base.cards, BaseCard.list_id)) - 1)
    /\ (AfterDelete
            /\ Deleted.position
                < Cardinality(CardsOf(prev.base.cards, Last.list_id)) - 1)
        => LET n == Cardinality(CardsOf(prev.base.cards, Last.list_id))
           IN  /\ Last.status = 200
               /\ Last.out = n
               /\ \E c \in cards :
                    c.id = Last.id /\ c.list_id = Last.list_id
                        /\ c.position = n
               /\ Cardinality(CardsOf(cards, Last.list_id)) = n

\* [A, B] at 0 and 1, A deleted, C created: B is at 1 and C at 2
C38_Witness ==
    /\ AfterDelete
    /\ Last.status = 200
    /\ Cardinality(CardsOf(prev.base.cards, Last.list_id)) = 2
    /\ Deleted.position = 0
    /\ Last.out = 2
    /\ PositionsOf(CardsOf(cards, Last.list_id)) = {1, 2}

====
